---- MODULE Spec2Model ----
(***************************************************************************)
(* Model of the OAuth 2.0 authorization-code proxy and the bearer-token    *)
(* validator of mcp-gdrive (src/src/oauth.ts), and of the session          *)
(* registries of its SSE server (src/src/http-server.ts), of its hybrid    *)
(* server and of its dual-transport server (both src/unnamed/part_004).    *)
(*                                                                         *)
(* Every HTTP request is a handler invocation that occupies a slot of      *)
(* `reqs`.  A handler runs synchronously from one `await` to the next;     *)
(* each such synchronous block is one action.  The slot keeps the          *)
(* request's parameters and the handler's local variables while the        *)
(* handler is suspended; the step in which the handler answers writes the  *)
(* request and its response to `out` and frees the slot.                   *)
(*                                                                         *)
(* Absent query/body/header values are the empty string: the code tests    *)
(* them for truthiness only, and "" and undefined are both falsy.          *)
(***************************************************************************)
EXTENDS Integers, Sequences, FiniteSets, TLC

\* ---------------------------------------------------------------- bounds
\* the clock stops after this many ticks
MaxTicks == 3
\* the server stops accepting requests after this many
MaxRequests == 4

\* handler invocations that can be in flight together
Reqs == {"h1", "h2"}

\* one clock tick, in milliseconds (5 minutes)
TickMs == 5 * 60 * 1000

\* ------------------------------------------------------- program constants
\* oauth.ts:12-15
SCOPES == <<"drive.readonly", "drive.metadata.readonly">>

\* oauth.ts:165 and oauth.ts:258: 10 * 60 * 1000
TTL == 10 * 60 * 1000

\* oauth.ts:479: 24 * 60 * 60 * 1000
RegistrationTTL == 24 * 60 * 60 * 1000

\* oauth.ts:518-527
publicPaths == <<"/health", "/oauth/authorize", "/oauth/callback",
                 "/oauth/token", "/oauth/register",
                 "/.well-known/oauth-protected-resource",
                 "/.well-known/oauth-authorization-server",
                 "/.well-known/openid-configuration">>

\* ------------------------------------------------------------ environment
\* The values crypto.randomBytes(32).toString("hex") hands out, in order.
\* A 256-bit random value is modelled as fresh: it differs from every value
\* drawn before and from every value a client or Google has supplied.
RandomHexValues == <<"r1", "r2", "r3", "r4", "r5", "r6", "r7", "r8">>

\* (redirect_uri, state) pairs a client may send to /oauth/authorize
AuthorizeQueries ==
  {[redirect_uri |-> "", state |-> ""],
   [redirect_uri |-> "https://client/cb", state |-> "xyz"],
   [redirect_uri |-> "not-a-url", state |-> "xyz"]}
\* the redirect_uri values that `new URL(...)` accepts
ParsableUrls == {"https://client/cb"}
\* the queries a client may send to /oauth/authorize: a browser sends no
\* response_type, a client sends "code" or an unsupported response_type
AuthorizeRequests ==
  {[redirect_uri |-> q.redirect_uri, state |-> q.state,
    response_type |-> IF q.redirect_uri = "" THEN "" ELSE "code"] :
      q \in AuthorizeQueries}
  \cup {[redirect_uri |-> "https://client/cb", state |-> "xyz",
         response_type |-> "token"]}
\* authorization codes Google may send to /oauth/callback
GoogleCodes == {"g1"}
\* error value Google may send to /oauth/callback instead of a code
GoogleError == "access_denied"
\* the token sets Google may issue: access token, refresh token ("" = none)
\* and lifetime in ms (0 = no expiry_date).  The lifetime is Google's choice;
\* the one of the model ends half a second after the second clock tick.
GoogleTokens ==
  {[access_token |-> "at1", refresh_token |-> "rt1", lifetime |-> 2 * TickMs + 500],
   [access_token |-> "at2", refresh_token |-> "", lifetime |-> 0]}
\* what Google may answer to getToken and to refreshAccessToken
GoogleAnswers ==
  {[ok |-> FALSE]} \cup {[ok |-> TRUE, tokens |-> t] : t \in GoogleTokens}
\* bearer tokens a client may present
AccessTokens == {"at1", "at2"}
\* what Google may answer to getTokenInfo: failure, or the granted scopes
\* (hasScopes is FALSE when the answer carries no scopes field)
TokenInfoAnswers ==
  {[ok |-> FALSE]}
  \cup {[ok |-> TRUE, hasScopes |-> TRUE, scopes |-> sc, email |-> "user@example.com"] :
          sc \in {{}, {"email"}, {"drive.readonly"},
                  {"drive.metadata.readonly", "email"},
                  {"drive.readonly", "drive.metadata.readonly"}}}
  \cup {[ok |-> TRUE, hasScopes |-> FALSE, scopes |-> {}, email |-> ""]}
\* paths of the requests that reach the bearer validator
RequestPaths == {"/health", "/sse", "/oauth/register", "/oauth/status"}
\* Authorization header values, split at " " ("" = no header)
AuthorizationHeaders ==
  {<<>>, <<"Basic", "dXNlcg==">>, <<"Bearer">>}
  \cup {<<"Bearer", t>> : t \in AccessTokens}
  \cup {<<"bearer", "at1">>, <<"Bearer", "", "at1">>}
\* the headers getServerUrl reads: Host, X-Forwarded-Proto (split at ","),
\* CloudFront-Forwarded-Proto, X-Forwarded-Host, and whether the connection
\* is TLS ("" and <<>> = header absent)
RequestHeaders ==
  {[host |-> "localhost:3000", forwardedProto |-> <<>>, cloudFrontProto |-> "",
    forwardedHost |-> "", secure |-> FALSE],
   [host |-> "d1.cloudfront.net", forwardedProto |-> <<"http">>, cloudFrontProto |-> "https",
    forwardedHost |-> "", secure |-> FALSE],
   [host |-> "10.0.0.7", forwardedProto |-> <<"https", " http">>, cloudFrontProto |-> "",
    forwardedHost |-> "mcp.example.com", secure |-> FALSE]}
\* every combination of the five inputs of getServerUrl
AllRequestHeaders ==
  [host : {"localhost:3000", "d1.cloudfront.net", "10.0.0.7"},
   forwardedProto : {<<>>, <<"http">>, <<"https", " http">>},
   cloudFrontProto : {"", "https"},
   forwardedHost : {"", "mcp.example.com"},
   secure : BOOLEAN]
\* grant_type values a client may send other than the two supported ones
OtherGrantTypes == {"", "password"}
\* error_description / message of a response: the `message` of an exception
\* thrown by the key provider, the Google client library or the MCP SDK
ErrorMessage == "error.message"
\* error_description / message of a response: a literal text of the source
FixedText == "text"

\* ---------------------------------------------------------------- Map<K,V>
MapSet(m, k, v) == [x \in (DOMAIN m) \cup {k} |-> IF x = k THEN v ELSE m[x]]

MapDelete(m, k) == [x \in (DOMAIN m) \ {k} |-> m[x]]

MapHas(m, k) == k \in DOMAIN m

EmptyMap == [x \in {} |-> 0]

\* ------------------------------------------------------------------- state
VARIABLES
  now,                 \* Date.now(), in ms
  oauthStates,         \* oauth.ts:19  state -> PendingAuthorization
  authorizationCodes,  \* oauth.ts:25  code  -> {timestamp, tokens}
  userTokens,          \* oauth.ts:29  declared, never read or written
  registeredClients,   \* oauth.ts:30  client_id -> {timestamp}
  drawn,               \* number of randomBytes values handed out so far
  started,             \* number of requests received so far
  reqs,                \* slot -> the handler invocation in flight, or Idle
  out,                 \* the request answered by the last step and its response
  finished,            \* history: states whose callback passed validation and finished
  produced,            \* history: state -> number of proxy codes / token pages produced
  redeemed,            \* history: code -> number of token responses /oauth/token returned for it
  flows,               \* history: state -> the redirect_uri and state its /oauth/authorize request carried
  handed,              \* history: proxy codes sent to a client in a redirect
  issued,              \* history: proxy code -> access token Google issued when it was minted
  accepted,            \* history: bearer tokens the validator has passed on
  NODE_ENV,            \* http-server.ts:11  process.env.NODE_ENV || "development"
  transports,          \* http-server.ts:14  sessionId -> transport (SSE server)
  transportsDual,      \* part_004:319       sessionId -> transport (dual-transport server)
  minted,              \* number of randomUUID values handed out so far
  transportsHybrid,    \* part_004:16        sessionId -> transport (hybrid server)
  preAuthClient,       \* part_004:19        the pre-authenticated client, "" = null
  servers,             \* sessionId -> the MCP server created for that session's transport, and the transport's _currentRequest ("" = no such property)
  phase,               \* server -> "starting", "running", "closing" (signal received) or "exited"
  shutdown             \* part_004:608-627   the keys the for-in loop of shutdown has still to visit, and the key whose close() it awaits

vars == <<now, oauthStates, authorizationCodes, userTokens, registeredClients,
          drawn, started,
          reqs, out,
          finished, produced, redeemed, flows, handed, issued, accepted,
          NODE_ENV, transports, transportsDual, minted,
          transportsHybrid, preAuthClient, servers, phase, shutdown>>

\* the session registries of the HTTP servers, their id source and their
\* processes
sessions == <<transports, transportsDual, minted,
              transportsHybrid, preAuthClient, servers, phase, shutdown>>

stores == <<oauthStates, authorizationCodes, userTokens, registeredClients>>

history == <<finished, produced, redeemed, flows, handed, issued, accepted>>

\* a slot no handler occupies
Idle == [kind |-> "idle", pc |-> "done"]

\* no request was answered by the last step
NoResponse == [req |-> Idle, res |-> [status |-> 0, format |-> "none"]]

Init ==
  /\ now = 0
  /\ oauthStates = EmptyMap
  /\ authorizationCodes = EmptyMap
  /\ userTokens = EmptyMap
  /\ registeredClients = EmptyMap
  /\ drawn = 0
  /\ started = 0
  /\ reqs = [r \in Reqs |-> Idle]
  /\ out = NoResponse
  /\ finished = {}
  /\ produced = EmptyMap
  /\ redeemed = EmptyMap
  /\ flows = EmptyMap
  /\ handed = {}
  /\ issued = EmptyMap
  /\ accepted = {}
  /\ NODE_ENV \in {"development", "production"}
  /\ transports = EmptyMap
  /\ transportsDual = EmptyMap
  /\ minted = 0
  /\ transportsHybrid = EmptyMap
  /\ preAuthClient = ""
  /\ servers = EmptyMap
  /\ phase = [app \in {"sse", "hybrid", "dual"} |->
                IF app = "hybrid" THEN "starting" ELSE "running"]
  /\ shutdown = [pending |-> {}, closing |-> ""]

\* the /oauth/authorize request of a client that asks for a code
ClientAuthorize ==
  [kind |-> "authorize", pc |-> "createOAuthClient",
   redirect_uri |-> "https://client/cb", state |-> "xyz",
   response_type |-> "code"]

\* the server once two clients have each been sent to Google by
\* /oauth/authorize: two pending states, no code yet.  `started` counts the
\* requests received from here on.
InitTwoFlows ==
  /\ now = 0
  /\ oauthStates = [state \in {RandomHexValues[1], RandomHexValues[2]} |->
                      [timestamp |-> 0,
                       clientRedirectUri |-> ClientAuthorize.redirect_uri,
                       clientState |-> ClientAuthorize.state]]
  /\ authorizationCodes = EmptyMap
  /\ userTokens = EmptyMap
  /\ registeredClients = EmptyMap
  /\ drawn = 2
  /\ started = 0
  /\ reqs = [r \in Reqs |-> Idle]
  /\ out = NoResponse
  /\ finished = {}
  /\ produced = EmptyMap
  /\ redeemed = EmptyMap
  /\ flows = [state \in {RandomHexValues[1], RandomHexValues[2]} |->
                [redirect_uri |-> ClientAuthorize.redirect_uri,
                 state |-> ClientAuthorize.state]]
  /\ handed = {}
  /\ issued = EmptyMap
  /\ accepted = {}
  /\ NODE_ENV \in {"development", "production"}
  /\ transports = EmptyMap
  /\ transportsDual = EmptyMap
  /\ minted = 0
  /\ transportsHybrid = EmptyMap
  /\ preAuthClient = ""
  /\ servers = EmptyMap
  /\ phase = [app \in {"sse", "hybrid", "dual"} |->
                IF app = "hybrid" THEN "starting" ELSE "running"]
  /\ shutdown = [pending |-> {}, closing |-> ""]

\* a new request may take slot r when no handler occupies it
Free(r) == reqs[r].kind = "idle" /\ started < MaxRequests

\* the handler of `req` in slot r answers with `response` and returns
Respond(r, req, response) ==
  /\ reqs' = [reqs EXCEPT ![r] = Idle]
  /\ out' = [req |-> req, res |-> response]

\* the handler of `req` in slot r suspends at an await
Suspend(r, req) ==
  /\ reqs' = [reqs EXCEPT ![r] = req]
  /\ out' = NoResponse

\* crypto.randomBytes(32).toString("hex"): the next fresh value
randomBytes(n) == RandomHexValues[n + 1]

\* the values handed out so far
Drawn == {RandomHexValues[i] : i \in 1..drawn}

\* the lazy sweep: drop every record whose timestamp is before t - TTL
SweepMutantKeepAll(store, t) == store

SweepMutantEager(store, t) ==
  [k \in {k \in DOMAIN store : ~(store[k].timestamp < t)} |-> store[k]]

Sweep(store, t) ==
  LET tenMinutesAgo == t - TTL
      keep == {k \in DOMAIN store : ~(store[k].timestamp < tenMinutesAgo)}
  IN [k \in keep |-> store[k]]

\* time passes
Tick ==
  /\ now < MaxTicks * TickMs
  /\ now' = now + TickMs
  /\ out' = NoResponse
  /\ UNCHANGED <<stores, drawn, started, reqs, history, NODE_ENV, sessions>>

\* ------------------------------------------------------- /oauth/authorize
\* handleAuthorize up to `await createOAuthClient(req)`
AuthorizeStart(r) ==
  /\ Free(r)
  /\ started' = started + 1
  /\ UNCHANGED <<NODE_ENV, sessions>>
  /\ \E q \in AuthorizeRequests :
       LET req == [kind |-> "authorize", pc |-> "createOAuthClient",
                   redirect_uri |-> q.redirect_uri, state |-> q.state,
                   response_type |-> q.response_type]
           response_type == q.response_type
       IN IF response_type # "" /\ response_type # "code"
          THEN Respond(r, req, [status |-> 400, format |-> "json",
                                error |-> "unsupported_response_type",
                                description |-> FixedText])
          ELSE Suspend(r, req)
  /\ UNCHANGED <<now, stores, drawn, history>>

\* the record handleAuthorize stores for a request
PendingAuthorization(req, t) ==
  [timestamp |-> t,
   clientRedirectUri |-> req.redirect_uri,
   clientState |-> req.state]

\* the redirect to Google's consent page, carrying the minted state:
\* oauth.ts:173-181
GoogleRedirectMutantClientState(state, clientState) ==
  [status |-> 302, format |-> "redirect", to |-> "google", state |-> clientState]

GoogleRedirect(state, clientState) ==
  [status |-> 302, format |-> "redirect", to |-> "google", state |-> state]

\* handleAuthorize after createOAuthClient has settled
AuthorizeResume(r) ==
  /\ UNCHANGED <<started, NODE_ENV, sessions>>
  /\ reqs[r].kind = "authorize"
  /\ reqs[r].pc = "createOAuthClient"
  /\ \E keysOk \in BOOLEAN :
       IF ~keysOk
       THEN /\ Respond(r, reqs[r], [status |-> 500, format |-> "json",
                                    error |-> "server_error",
                                    description |-> ErrorMessage])
            /\ UNCHANGED <<oauthStates, drawn, flows>>
       ELSE /\ drawn < Len(RandomHexValues)
            /\ LET state == randomBytes(drawn)
               IN /\ oauthStates' = Sweep(MapSet(oauthStates, state,
                                            PendingAuthorization(reqs[r], now)), now)
                  /\ flows' = MapSet(flows, state,
                                     [redirect_uri |-> reqs[r].redirect_uri,
                                      state |-> reqs[r].state])
                  /\ Respond(r, reqs[r], GoogleRedirect(state, reqs[r].state))
            /\ drawn' = drawn + 1
  /\ UNCHANGED <<now, authorizationCodes, userTokens, registeredClients,
                 finished, produced,
                 redeemed, handed, issued, accepted>>

\* -------------------------------------------------------- /oauth/callback
\* state values a caller may present: none, or any value handed out so far
\* (a value that was minted as a proxy code is an unknown state)
PresentableValues == {""} \cup Drawn

\* the queries /oauth/callback may receive: a code with any presentable
\* state, or an error
CallbackQueries ==
  {[code |-> c, state |-> st, error |-> ""] :
      c \in GoogleCodes, st \in PresentableValues}
  \cup {[code |-> "", state |-> st, error |-> GoogleError] : st \in Drawn}

FailurePageMutantJson(status, why, description) ==
  [status |-> status, format |-> "json", error |-> why,
   description |-> description]

FailurePage(status, why, description) ==
  [status |-> status, format |-> "html", error |-> why,
   description |-> description]

\* handleCallback up to `await createOAuthClient(req)`: oauth.ts:201-234
CallbackStart(r) ==
  /\ Free(r)
  /\ started' = started + 1
  /\ UNCHANGED <<NODE_ENV, sessions>>
  /\ \E query \in CallbackQueries :
       LET code == query.code
           state == query.state
           error == query.error
           q == [kind |-> "callback", pc |-> "start",
                 code |-> code, state |-> state, error |-> error,
                 clientRedirectUri |-> "", clientState |-> "",
                 exchange |-> "", authCode |-> ""]
       IN IF error # ""
          THEN Respond(r, q, FailurePage(400, "oauth_error", FixedText))
          ELSE IF state = "" \/ ~MapHas(oauthStates, state)
          THEN Respond(r, q, FailurePage(400, "invalid_state", FixedText))
          ELSE Suspend(r, [q EXCEPT
                 !.pc = "createOAuthClient",
                 !.clientRedirectUri = oauthStates[state].clientRedirectUri,
                 !.clientState = oauthStates[state].clientState])
  /\ UNCHANGED <<now, stores, drawn, history>>

\* handleCallback after createOAuthClient has settled: oauth.ts:234-235
CallbackKeys(r) ==
  /\ UNCHANGED <<started, NODE_ENV, sessions>>
  /\ reqs[r].kind = "callback"
  /\ reqs[r].pc = "createOAuthClient"
  /\ \E keysOk \in BOOLEAN :
       IF ~keysOk
       THEN /\ Respond(r, reqs[r], FailurePage(500, "exception", ErrorMessage))
            /\ finished' = finished \cup {reqs[r].state}
       ELSE /\ Suspend(r, [reqs[r] EXCEPT !.pc = "getToken"])
            /\ UNCHANGED finished
  /\ UNCHANGED <<now, stores, drawn, produced, redeemed, flows, handed,
                 issued, accepted>>

\* the oauthStates map once Google has answered the token exchange
StatesAfterExchangeMutantClear(states, state, exchanged) ==
  IF exchanged THEN EmptyMap ELSE states

StatesAfterExchange(states, state, exchanged) ==
  IF exchanged THEN MapDelete(states, state) ELSE states

\* the record handleCallback stores under a new proxy code: oauth.ts:248-255
ProxyAuthorizationCodeMutantFirstIssued(tokens, t) ==
  [timestamp |-> t,
   tokens |-> [access_token |-> "at1",
               refresh_token |-> tokens.refresh_token,
               expiry_date |-> tokens.expiry_date]]

ProxyAuthorizationCode(tokens, t) ==
  [timestamp |-> t,
   tokens |-> [access_token |-> tokens.access_token,
               refresh_token |-> tokens.refresh_token,
               expiry_date |-> tokens.expiry_date]]

\* the redirect back to the client: oauth.ts:266-273
ClientRedirectMutantGoogleCode(uri, authCode, googleCode, clientState) ==
  [status |-> 302, format |-> "redirect", to |-> uri,
   code |-> googleCode, state |-> clientState]

ClientRedirect(uri, authCode, googleCode, clientState) ==
  [status |-> 302, format |-> "redirect", to |-> uri,
   code |-> authCode, state |-> clientState]

Bump(m, k) == MapSet(m, k, IF MapHas(m, k) THEN m[k] + 1 ELSE 1)

\* `if (clientRedirectUri)`: the flow was started by an MCP client, oauth.ts:243
IsClientFlowMutantAlways(clientRedirectUri) == TRUE

IsClientFlow(clientRedirectUri) == clientRedirectUri # ""

\* handleCallback after Google has answered getToken: oauth.ts:235-321
CallbackToken(r) ==
  /\ UNCHANGED <<started, NODE_ENV, sessions>>
  /\ reqs[r].kind = "callback"
  /\ reqs[r].pc = "getToken"
  /\ finished' = finished \cup {reqs[r].state}
  /\ \E answer \in GoogleAnswers :
       LET req == [reqs[r] EXCEPT !.exchange = IF answer.ok THEN "ok" ELSE "failed"] IN
       IF ~answer.ok
       THEN /\ Respond(r, req, FailurePage(500, "exception", ErrorMessage))
            /\ oauthStates' = StatesAfterExchange(oauthStates, req.state, FALSE)
            /\ UNCHANGED <<authorizationCodes, drawn, produced, issued, handed>>
       ELSE LET tokens == [access_token |-> answer.tokens.access_token,
                           refresh_token |-> answer.tokens.refresh_token,
                           expiry_date |-> IF answer.tokens.lifetime = 0 THEN 0
                                           ELSE now + answer.tokens.lifetime]
            IN
            /\ oauthStates' = StatesAfterExchange(oauthStates, req.state, TRUE)
            /\ produced' = Bump(produced, req.state)
            /\ IF IsClientFlow(req.clientRedirectUri)
               THEN /\ drawn < Len(RandomHexValues)
                    /\ drawn' = drawn + 1
                    /\ LET authCode == randomBytes(drawn) IN
                       /\ authorizationCodes' =
                            Sweep(MapSet(authorizationCodes, authCode,
                                         ProxyAuthorizationCode(tokens, now)), now)
                       /\ issued' = MapSet(issued, authCode, tokens.access_token)
                       /\ IF req.clientRedirectUri \in ParsableUrls
                          THEN /\ Respond(r, [req EXCEPT !.authCode = authCode],
                                     ClientRedirect(req.clientRedirectUri,
                                         authCode, req.code, req.clientState))
                               /\ handed' = handed \cup {authCode}
                          ELSE /\ Respond(r, [req EXCEPT !.authCode = authCode],
                                     FailurePage(500, "exception", ErrorMessage))
                               /\ UNCHANGED handed
               ELSE /\ Respond(r, req, [status |-> 200, format |-> "html",
                                        error |-> "",
                                        access_token |-> tokens.access_token])
                    /\ UNCHANGED <<authorizationCodes, drawn, issued, handed>>
  /\ UNCHANGED <<now, userTokens, registeredClients, redeemed, flows, accepted>>

\* ----------------------------------------------------------- /oauth/token
\* the bodies a client may post
TokenBodies ==
  {[grant_type |-> g, code |-> "", refresh_token |-> ""] : g \in OtherGrantTypes}
  \cup {[grant_type |-> "authorization_code", code |-> c, refresh_token |-> ""] :
          c \in PresentableValues}
  \cup {[grant_type |-> "refresh_token", code |-> "", refresh_token |-> t] :
          t \in {"", "rt1"}}

JsonErrorMutantInvalidGrant(status, why, description) ==
  [status |-> status, format |-> "json", error |-> "invalid_grant",
   description |-> description]

JsonError(status, why, description) ==
  [status |-> status, format |-> "json", error |-> why,
   description |-> description]

\* expires_in of an authorization_code response: oauth.ts:388-397
ExpiresIn(tokens, t) ==
  LET expiresIn == IF tokens.expiry_date # 0
                   THEN (tokens.expiry_date - t) \div 1000
                   ELSE 3600
  IN IF expiresIn > 0 THEN expiresIn ELSE 3600

\* the code store after a code has been looked up successfully: oauth.ts:385
ConsumeCodeMutantKeep(codes, code) == codes

ConsumeCode(codes, code) == MapDelete(codes, code)

\* handleToken from the destructuring of the body on: oauth.ts:357-424
TokenBody(r, req) ==
  IF req.grant_type = ""
  THEN /\ Respond(r, req, JsonError(400, "invalid_request", FixedText))
       /\ UNCHANGED <<authorizationCodes, redeemed>>
  ELSE IF req.grant_type = "authorization_code"
  THEN IF req.code = ""
       THEN /\ Respond(r, req, JsonError(400, "invalid_request", FixedText))
            /\ UNCHANGED <<authorizationCodes, redeemed>>
       ELSE IF ~MapHas(authorizationCodes, req.code)
       THEN /\ Respond(r, req, JsonError(400, "invalid_grant", FixedText))
            /\ UNCHANGED <<authorizationCodes, redeemed>>
       ELSE LET authData == authorizationCodes[req.code] IN
            /\ authorizationCodes' = ConsumeCode(authorizationCodes, req.code)
            /\ redeemed' = Bump(redeemed, req.code)
            /\ Respond(r, req, [status |-> 200, format |-> "json", error |-> "",
                                access_token |-> authData.tokens.access_token,
                                expires_in |-> ExpiresIn(authData.tokens, now),
                                refresh_token |-> authData.tokens.refresh_token])
  ELSE IF req.grant_type = "refresh_token"
  THEN /\ IF req.refresh_token = ""
          THEN Respond(r, req, JsonError(400, "invalid_request", FixedText))
          ELSE Suspend(r, [req EXCEPT !.pc = "createOAuthClient"])
       /\ UNCHANGED <<authorizationCodes, redeemed>>
  ELSE /\ Respond(r, req, JsonError(400, "unsupported_grant_type", FixedText))
       /\ UNCHANGED <<authorizationCodes, redeemed>>

\* a token request whose body could not be parsed: the handler has read
\* none of its fields
UnreadBody ==
  [kind |-> "token", pc |-> "parseBody", bodyOk |-> FALSE,
   grant_type |-> "", code |-> "", refresh_token |-> ""]

\* handleToken on a request whose body the framework has parsed, or up to
\* the await of the manual parse: oauth.ts:334-355
TokenStart(r) ==
  /\ Free(r)
  /\ started' = started + 1
  /\ UNCHANGED <<NODE_ENV, sessions>>
  /\ \E body \in TokenBodies, parsed \in BOOLEAN :
       LET req == [kind |-> "token", pc |-> "parseBody", bodyOk |-> FALSE,
                   grant_type |-> body.grant_type, code |-> body.code,
                   refresh_token |-> body.refresh_token]
       IN IF parsed
          THEN TokenBody(r, [req EXCEPT !.bodyOk = TRUE])
          ELSE Suspend(r, req) /\ UNCHANGED <<authorizationCodes, redeemed>>
  /\ UNCHANGED <<now, oauthStates, userTokens, registeredClients, drawn,
                 finished, produced,
                 flows, handed, issued, accepted>>

\* handleToken after the manual parse has settled
TokenParsed(r) ==
  /\ UNCHANGED <<started, NODE_ENV, sessions>>
  /\ reqs[r].kind = "token"
  /\ reqs[r].pc = "parseBody"
  /\ \E ok \in BOOLEAN :
       IF ok
       THEN TokenBody(r, [reqs[r] EXCEPT !.bodyOk = TRUE])
       ELSE /\ Respond(r, UnreadBody, JsonError(400, "invalid_grant", ErrorMessage))
            /\ UNCHANGED <<authorizationCodes, redeemed>>
  /\ UNCHANGED <<now, oauthStates, userTokens, registeredClients, drawn,
                 finished, produced,
                 flows, handed, issued, accepted>>

\* handleToken, refresh grant, after createOAuthClient has settled: oauth.ts:409-411
TokenKeys(r) ==
  /\ UNCHANGED <<started, NODE_ENV, sessions>>
  /\ reqs[r].kind = "token"
  /\ reqs[r].pc = "createOAuthClient"
  /\ \E keysOk \in BOOLEAN :
       IF keysOk
       THEN Suspend(r, [reqs[r] EXCEPT !.pc = "refreshAccessToken"])
       ELSE Respond(r, reqs[r], JsonError(400, "invalid_grant", ErrorMessage))
  /\ UNCHANGED <<now, stores, drawn, history>>

\* the token response of a successful refresh grant: oauth.ts:413-418
\* (expiry_date is Date.now() + lifetime at the time Google answers)
RefreshResponseMutantReissue(credentials, refresh_token) ==
  [status |-> 200, format |-> "json", error |-> "",
   access_token |-> credentials.access_token,
   expires_in |-> IF credentials.lifetime # 0
                  THEN credentials.lifetime \div 1000 ELSE 3600,
   refresh_token |-> refresh_token]

RefreshResponse(credentials, refresh_token) ==
  [status |-> 200, format |-> "json", error |-> "",
   access_token |-> credentials.access_token,
   expires_in |-> IF credentials.lifetime # 0
                  THEN credentials.lifetime \div 1000 ELSE 3600]

\* handleToken, refresh grant, after Google has answered: oauth.ts:411-431
TokenRefresh(r) ==
  /\ UNCHANGED <<started, NODE_ENV, sessions>>
  /\ reqs[r].kind = "token"
  /\ reqs[r].pc = "refreshAccessToken"
  /\ \E answer \in GoogleAnswers :
       IF ~answer.ok
       THEN Respond(r, reqs[r], JsonError(400, "invalid_grant", ErrorMessage))
       ELSE Respond(r, reqs[r],
              RefreshResponse(answer.tokens, reqs[r].refresh_token))
  /\ UNCHANGED <<now, stores, drawn, history>>

\* ---------------------------------------------------------- getServerUrl
\* String.prototype.includes('cloudfront.net') on the hosts of the model
IncludesCloudfront(host) == host \in {"d1.cloudfront.net"}

\* String.prototype.trim on the X-Forwarded-Proto items of the model
Trim(item) ==
  CASE item = " http" -> "http"
    [] item = " https" -> "https"
    [] OTHER -> item

\* String.prototype.toLowerCase on the scheme words of the model
ToLowerCase(word) ==
  CASE word = "Bearer" -> "bearer"
    [] word = "Basic" -> "basic"
    [] OTHER -> word

\* oauth.ts:36-64: <<protocol, host>> stands for `${protocol}://${finalHost}`
getServerUrlMutantForwardedFirst(h) ==
  LET protocol ==
        IF h.forwardedProto # <<>> THEN Trim(h.forwardedProto[1])
        ELSE IF h.host # "" /\ IncludesCloudfront(h.host) THEN "https"
        ELSE IF h.cloudFrontProto # "" THEN h.cloudFrontProto
        ELSE IF h.secure THEN "https"
        ELSE "http"
      finalHost == IF h.forwardedHost # "" THEN h.forwardedHost ELSE h.host
  IN <<protocol, finalHost>>

getServerUrl(h) ==
  LET protocol ==
        IF h.host # "" /\ IncludesCloudfront(h.host) THEN "https"
        ELSE IF h.forwardedProto # <<>> THEN Trim(h.forwardedProto[1])
        ELSE IF h.cloudFrontProto # "" THEN h.cloudFrontProto
        ELSE IF h.secure THEN "https"
        ELSE "http"
      finalHost == IF h.forwardedHost # "" THEN h.forwardedHost ELSE h.host
  IN <<protocol, finalHost>>

\* `${serverUrl}${path}`
UrlAt(serverUrl, path) == Append(serverUrl, path)

\* oauth.ts:620-630: the handler each OAuth route is bound to
Routes ==
  [p \in {"/.well-known/oauth-protected-resource",
          "/.well-known/oauth-authorization-server",
          "/.well-known/openid-configuration",
          "/oauth/authorize", "/oauth/callback", "/oauth/token",
          "/oauth/register"} |->
     CASE p = "/.well-known/oauth-protected-resource" -> "handleOAuthMetadata"
       [] p = "/.well-known/oauth-authorization-server" -> "handleAuthServerMetadata"
       [] p = "/.well-known/openid-configuration" -> "handleAuthServerMetadata"
       [] p = "/oauth/authorize" -> "handleAuthorize"
       [] p = "/oauth/callback" -> "handleCallback"
       [] p = "/oauth/token" -> "handleToken"
       [] p = "/oauth/register" -> "handleRegister"]

\* handleOAuthMetadata for a request with one of these headers: oauth.ts:94-105
OAuthMetadata(r, headers) ==
  /\ Free(r)
  /\ started' = started + 1
  /\ UNCHANGED <<NODE_ENV, sessions>>
  /\ \E h \in headers :
       LET serverUrl == getServerUrl(h) IN
       Respond(r, [kind |-> "metadata", pc |-> "done", headers |-> h],
               [status |-> 200, format |-> "json", error |-> "",
                resource |-> serverUrl,
                authorization_servers |->
                  <<UrlAt(serverUrl, "/.well-known/oauth-authorization-server")>>,
                bearer_methods_supported |-> <<"header">>,
                scopes_supported |-> SCOPES])
  /\ UNCHANGED <<now, stores, drawn, history>>

handleOAuthMetadata(r) == OAuthMetadata(r, RequestHeaders)

\* handleAuthServerMetadata: oauth.ts:114-129
handleAuthServerMetadata(r) ==
  /\ Free(r)
  /\ started' = started + 1
  /\ UNCHANGED <<NODE_ENV, sessions>>
  /\ \E h \in RequestHeaders :
       LET serverUrl == getServerUrl(h) IN
       Respond(r, [kind |-> "asMetadata", pc |-> "done", headers |-> h],
               [status |-> 200, format |-> "json", error |-> "",
                issuer |-> serverUrl,
                authorization_endpoint |-> UrlAt(serverUrl, "/oauth/authorize"),
                token_endpoint |-> UrlAt(serverUrl, "/oauth/token"),
                registration_endpoint |-> UrlAt(serverUrl, "/oauth/register"),
                scopes_supported |-> SCOPES])
  /\ UNCHANGED <<now, stores, drawn, history>>

\* ------------------------------------------------------- /oauth/register
\* The values crypto.randomUUID() hands out as client ids: a value that
\* differs from every client id in the map.
ClientIds == <<"c1", "c2", "c3", "c4", "c5", "c6">>

randomClientId(clients) ==
  ClientIds[CHOOSE i \in 1..Len(ClientIds) :
              /\ ClientIds[i] \notin DOMAIN clients
              /\ \A j \in 1..(i - 1) : ClientIds[j] \in DOMAIN clients]

\* the sweep of the registrations: oauth.ts:478-484
SweepRegistrations(clients, t) ==
  LET oneDayAgo == t - RegistrationTTL
      keep == {k \in DOMAIN clients : ~(clients[k].timestamp < oneDayAgo)}
  IN [k \in keep |-> clients[k]]

\* handleRegister from the destructuring of the body on: oauth.ts:467-495
RegisterBody(r, req) ==
  /\ \E i \in 1..Len(ClientIds) : ClientIds[i] \notin DOMAIN registeredClients
  /\ LET clientId == randomClientId(registeredClients) IN
     /\ registeredClients' =
          SweepRegistrations(MapSet(registeredClients, clientId,
                                    [timestamp |-> now]), now)
     /\ Respond(r, [req EXCEPT !.bodyOk = TRUE],
                [status |-> 201, format |-> "json", error |-> "",
                 client_id |-> clientId])

\* handleRegister on a request whose body the framework has parsed, or up
\* to the await of the manual parse: oauth.ts:441-465
RegisterStart(r) ==
  /\ Free(r)
  /\ started' = started + 1
  /\ UNCHANGED <<NODE_ENV, sessions>>
  /\ \E parsed \in BOOLEAN :
       LET req == [kind |-> "register", pc |-> "parseBody", bodyOk |-> FALSE] IN
       IF parsed
       THEN RegisterBody(r, req)
       ELSE Suspend(r, req) /\ UNCHANGED registeredClients
  /\ UNCHANGED <<now, oauthStates, authorizationCodes, userTokens, drawn, history>>

\* handleRegister after the manual parse has settled: oauth.ts:465-502
RegisterParsed(r) ==
  /\ UNCHANGED <<started, NODE_ENV, sessions>>
  /\ reqs[r].kind = "register"
  /\ reqs[r].pc = "parseBody"
  /\ \E ok \in BOOLEAN :
       IF ok
       THEN RegisterBody(r, reqs[r])
       ELSE /\ Respond(r, reqs[r],
                       JsonError(400, "invalid_client_metadata", ErrorMessage))
            /\ UNCHANGED registeredClients
  /\ UNCHANGED <<now, oauthStates, authorizationCodes, userTokens, drawn, history>>

\* handleOAuthMetadata for a request with any combination of the headers
\* getServerUrl reads
MetadataRequest(r) == OAuthMetadata(r, AllRequestHeaders)

\* ------------------------------------------------------- oauthMiddleware
\* String.prototype.startsWith on the paths of the model
StartsWith(path, prefix) ==
  CASE prefix = "/oauth/" ->
         path \in {"/oauth/authorize", "/oauth/callback", "/oauth/token",
                   "/oauth/register", "/oauth/status"}
    [] prefix = "/.well-known/" ->
         path \in {"/.well-known/oauth-protected-resource",
                   "/.well-known/oauth-authorization-server",
                   "/.well-known/openid-configuration"}
    [] OTHER -> path = prefix

\* oauth.ts:529: publicPaths.some(path => req.path === path)
InPublicPathsMutantPrefix(path) ==
  \/ path = "/health"
  \/ StartsWith(path, "/oauth/")
  \/ StartsWith(path, "/.well-known/")

InPublicPaths(path) == \E i \in 1..Len(publicPaths) : publicPaths[i] = path

\* the three header lines every 401 of the validator sets, e.g. oauth.ts:539-543
DiscoveryHeaders(h) ==
  LET resourceMetadataUrl ==
        UrlAt(getServerUrl(h), "/.well-known/oauth-protected-resource")
  IN [cache_control |-> "no-store, no-cache, must-revalidate",
      www_authenticate |-> [scheme |-> "Bearer",
                            resource_metadata |-> resourceMetadataUrl],
      link |-> [target |-> resourceMetadataUrl, rel |-> "oauth-protected-resource"]]

NoHeaders ==
  [cache_control |-> "",
   www_authenticate |-> [scheme |-> "", resource_metadata |-> <<>>],
   link |-> [target |-> <<>>, rel |-> ""]]

MwResponse(status, why, description, headers) ==
  [status |-> status, format |-> "json", error |-> why,
   description |-> description, headers |-> headers]

\* oauth.ts:537-548
NoAuthorizationHeader(h) ==
  MwResponse(401, "invalid_token", FixedText, DiscoveryHeaders(h))

\* oauth.ts:551-561
BadAuthorizationHeader(h) ==
  MwResponse(401, "invalid_token", FixedText, DiscoveryHeaders(h))

\* oauth.ts:592-603: the catch block
ValidationFailedMutantBare(h) ==
  MwResponse(401, "invalid_token", ErrorMessage, NoHeaders)

ValidationFailedMutantOpen(h) == [status |-> 0, format |-> "next", error |-> "",
                                  headers |-> NoHeaders, authClient |-> [access_token |-> ""],
                                  userId |-> "authenticated-user"]

ValidationFailed(h) ==
  MwResponse(401, "invalid_token", ErrorMessage, DiscoveryHeaders(h))

\* oauth.ts:578-583
InsufficientScope ==
  MwResponse(403, "insufficient_scope", FixedText, NoHeaders)

\* oauth.ts:574-576: SCOPES.some(scope => tokenInfo.scopes?.includes(scope))
hasRequiredScopesMutantEvery(tokenInfo) ==
  \A i \in 1..Len(SCOPES) :
     tokenInfo.hasScopes /\ SCOPES[i] \in tokenInfo.scopes

hasRequiredScopes(tokenInfo) ==
  \E i \in 1..Len(SCOPES) :
     tokenInfo.hasScopes /\ SCOPES[i] \in tokenInfo.scopes

\* oauth.ts:585-591: next() with the client attached to the request
PassOn(token, tokenInfo) ==
  [status |-> 0, format |-> "next", error |-> "", headers |-> NoHeaders,
   authClient |-> [access_token |-> token],
   userId |-> IF tokenInfo.email # "" THEN tokenInfo.email
              ELSE "authenticated-user"]

\* ------------------------------------------------------ session registry
\* The values randomUUID() hands out as session ids, in order; each differs
\* from every id issued before and from every id a client made up.
SessionIds == <<"s1", "s2", "s3", "s4">>

randomUUID(n) == SessionIds[n + 1]

\* the session ids issued so far
Minted == {SessionIds[i] : i \in 1..minted}

\* property names every object literal inherits from Object.prototype
ObjectPrototypeKeys == {"constructor"}

\* sessionId values a client may send: none, an id issued so far (its
\* session open or closed), an id nobody issued, an inherited property name
PostableIds == {"", "no-such-session"} \cup ObjectPrototypeKeys \cup Minted

\* HTTP methods of the requests to the MCP endpoint
Methods == {"POST", "GET"}

\* new SSEServerTransport(endpoint, res): it carries its own session id
SSEServerTransport(sessionId) == [family |-> "sse", sessionId |-> sessionId]

\* new StreamableHTTPServerTransport(...): its session id is "" until the
\* transport has initialised the session
StreamableHTTPServerTransport(sessionId) ==
  [family |-> "streamable", sessionId |-> sessionId]

\* the value of a property an object does not have
undefined == [family |-> "undefined", sessionId |-> ""]

\* the value of a property inherited from Object.prototype: truthy, and an
\* instance of neither transport class
Inherited == [family |-> "Object", sessionId |-> ""]

\* registry[key] on an object literal
Get(registry, key) ==
  IF key \in DOMAIN registry THEN registry[key]
  ELSE IF key \in ObjectPrototypeKeys THEN Inherited
  ELSE undefined

\* `x instanceof SSEServerTransport`
instanceofSSEMutantAny(x) == x # undefined

instanceofSSE(x) == x.family = "sse"

\* `x instanceof StreamableHTTPServerTransport`
instanceofStreamable(x) == x.family = "streamable"

\* the JSON bodies of the session endpoints: {error, message}
SessionError(status, why, description) ==
  [status |-> status, format |-> "json", error |-> why,
   description |-> description]

\* the transport has written the response itself, or keeps the stream open
ByTransport(status) ==
  [status |-> status, format |-> "transport", error |-> "", description |-> ""]

\* NODE_ENV === "development" ? error.message : "An error occurred"
DevelopmentOnly(env) == IF env = "development" THEN ErrorMessage ELSE FixedText

\* ---- what the session endpoints do once a request has reached them
\* the registries of the three HTTP servers: the SSE server
\* (http-server.ts), the hybrid server (part_004:1-301) and the
\* dual-transport server (part_004:303-640)
Apps == {"sse", "hybrid", "dual"}

registries == <<transports, transportsHybrid, transportsDual>>

\* the process-level state the request handlers only read
lifecycle == <<preAuthClient, phase, shutdown>>

\* `transports` of the server a request was sent to
Registry(app) ==
  CASE app = "sse" -> transports
    [] app = "hybrid" -> transportsHybrid
    [] OTHER -> transportsDual

\* an assignment to `transports` of one server
SetRegistry(app, registry) ==
  /\ transports' = IF app = "sse" THEN registry ELSE transports
  /\ transportsHybrid' = IF app = "hybrid" THEN registry ELSE transportsHybrid
  /\ transportsDual' = IF app = "dual" THEN registry ELSE transportsDual

\* transports[transport.sessionId] = transport
RegisterMutantSkip(registry, transport) == registry

Register(registry, transport) ==
  MapSet(registry, transport.sessionId, transport)

\* the MCP server a handler created and called connect(transport) on, for
\* the request whose req.authClient has this access token ("" = none)
McpServer(app, authClient) ==
  [app |-> app, status |-> "bound", transport |-> "open",
   authClient |-> authClient, currentRequest |-> ""]

\* getAuthFromRequest: oauth.ts:609-615 ("" = it throws)
getAuthFromRequest(authClient) == authClient

\* the auth provider the Streamable HTTP servers register: part_004:339-354
\* and part_003:37-52.  `given` tells whether it was called with a request
\* ("" = it throws)
StreamableAuthProvider(given, authClient) ==
  IF ~given THEN "" ELSE authClient

\* the auth provider of a session's handlers: part_004:76-93 ("" = it throws)
AuthProvider(server, preAuth) ==
  IF server.authClient # "" THEN server.authClient
  ELSE IF preAuth # "" THEN preAuth
  ELSE ""

\* getAuth of the handlers registered on `server`: part_002:311-321.  It
\* calls the auth provider without an argument; the provider is the one the
\* server's createMcpServer has passed to registerHandlers
\* (http-server.ts:34-36, part_004:76-93, part_004:339-354).
getAuth(server) ==
  CASE server.app = "sse" -> getAuthFromRequest(server.authClient)
    [] server.app = "hybrid" -> AuthProvider(server, preAuthClient)
    [] OTHER -> StreamableAuthProvider(FALSE, "")

\* the process accepts new requests
Running(app) == phase[app] = "running"

\* the process has not exited
Alive(app) == phase[app] \in {"running", "closing"}

\* GET /sse up to `await server.connect(transport)`: http-server.ts:89-108,
\* part_004:157-176 and part_004:495-507
GetSse(r, app, authClient) ==
  /\ minted < Len(SessionIds)
  /\ minted' = minted + 1
  /\ LET transport == SSEServerTransport(randomUUID(minted)) IN
     /\ SetRegistry(app, Register(Registry(app), transport))
     /\ servers' = MapSet(servers, transport.sessionId,
                          McpServer(app, authClient))
     /\ Suspend(r, [kind |-> IF app = "dual" THEN "dualSse" ELSE "sse",
                    app |-> app, pc |-> "connect",
                    sessionId |-> transport.sessionId, handedTo |-> undefined,
                    authClient |-> authClient])

\* POST /message up to `await transport.handlePostMessage`:
\* http-server.ts:119-140 and part_004:187-208
PostMessage(r, app, sessionId, authClient) ==
  /\ LET req == [kind |-> "message", app |-> app, pc |-> "start",
                 sessionId |-> sessionId, handedTo |-> undefined,
                 authClient |-> authClient, servedWith |-> ""]
         transport == Get(Registry(app), sessionId)
     IN IF sessionId = ""
        THEN Respond(r, req, SessionError(400, "Missing sessionId query parameter", ""))
        ELSE IF transport = undefined
        THEN Respond(r, req, SessionError(404, "Session not found", FixedText))
        ELSE IF transport.family = "sse"
        THEN Suspend(r, [req EXCEPT !.pc = "handlePostMessage",
                                    !.handedTo = transport])
        ELSE \* transport.handlePostMessage is not a function
             Respond(r, req, SessionError(500, "Message handling failed", ErrorMessage))
  /\ UNCHANGED <<registries, minted, servers>>

\* mcpHandler up to its first await: part_004:413-466
McpRequest(r, sessionId, method, authClient) ==
  /\ LET req == [kind |-> "mcp", app |-> "dual", pc |-> "start",
                 sessionId |-> sessionId, method |-> method,
                 handedTo |-> undefined, authClient |-> authClient,
                 servedWith |-> ""]
         existingTransport == Get(transportsDual, sessionId)
     IN IF sessionId # "" /\ existingTransport # undefined
        THEN IF instanceofStreamable(existingTransport)
             THEN \* (transport as any)._currentRequest = req: part_004:463
                  /\ Suspend(r, [req EXCEPT !.pc = "handleRequest",
                                            !.handedTo = existingTransport])
                  /\ servers' = [servers EXCEPT ![sessionId].currentRequest = r]
             ELSE /\ Respond(r, req, SessionError(400, "Bad Request",
                              "Session exists but uses a different transport protocol"))
                  /\ UNCHANGED servers
        ELSE /\ IF sessionId = "" /\ method = "POST"
                THEN Suspend(r, [req EXCEPT !.pc = "connect"])
                ELSE Respond(r, req, SessionError(400, "Bad Request",
                       "No valid session ID provided or not an initialization request"))
             /\ UNCHANGED servers
  /\ UNCHANGED <<registries, minted>>

\* POST /messages up to `await transport.handlePostMessage`: part_004:518-538
PostMessages(r, sessionId, authClient) ==
  /\ LET req == [kind |-> "messages", app |-> "dual", pc |-> "start",
                 sessionId |-> sessionId, handedTo |-> undefined,
                 authClient |-> authClient]
         transport == Get(transportsDual, sessionId)
     IN IF sessionId = ""
        THEN Respond(r, req, SessionError(400, "Missing sessionId query parameter", ""))
        ELSE IF transport = undefined
        THEN Respond(r, req, SessionError(400, "No transport found for sessionId", ""))
        ELSE IF ~instanceofSSE(transport)
        THEN Respond(r, req, SessionError(400,
               "Session exists but uses a different transport protocol", ""))
        ELSE Suspend(r, [req EXCEPT !.pc = "handlePostMessage",
                                    !.handedTo = transport])
  /\ UNCHANGED <<registries, minted, servers>>

\* the path oauthMiddleware reads in req.path: a middleware mounted with
\* app.use("/mcp", ...) sees the path below its mount point, part_004:483
PathSeen(app, path) == IF app = "dual" /\ path = "/mcp" THEN "/" ELSE path

\* what runs when oauthMiddleware calls next(): the route of the server the
\* request was sent to.  http-server.ts:70-148, part_004:127-216 and
\* part_004:483-518 (the MCP endpoint is mounted on /mcp and on /); a request handed to the validator alone (app "") ends
\* with the call of next().
Route(r, req, passed) ==
  LET authClient == passed.authClient.access_token IN
  CASE req.app \in {"sse", "hybrid"} /\ req.method = "GET" /\ req.path = "/sse" ->
         GetSse(r, req.app, authClient)
    [] req.app \in {"sse", "hybrid"} /\ req.method = "POST" /\ req.path = "/message" ->
         PostMessage(r, req.app, req.sessionId, authClient)
    [] req.app = "dual" /\ req.path \in {"/mcp", "/"} ->
         McpRequest(r, req.sessionId, req.method, authClient)
    [] req.app = "dual" /\ req.method = "GET" /\ req.path = "/sse" ->
         GetSse(r, "dual", authClient)
    [] req.app = "dual" /\ req.method = "POST" /\ req.path = "/messages" ->
         PostMessages(r, req.sessionId, authClient)
    [] OTHER ->
         /\ Respond(r, req, passed)
         /\ UNCHANGED <<registries, minted, servers>>

\* oauthMiddleware has decided: it has answered the request itself, or it
\* has called next()
Conclude(r, req, response) ==
  IF response.format = "next"
  THEN Route(r, req, response)
  ELSE /\ Respond(r, req, response)
       /\ UNCHANGED <<registries, minted, servers>>

\* oauthMiddleware up to `await createOAuthClient(req)`: oauth.ts:517-567
Middleware(r, req) ==
  LET parts == req.authorization IN
  IF InPublicPaths(PathSeen(req.app, req.path))
  THEN Conclude(r, req, [status |-> 0, format |-> "next", error |-> "",
                         headers |-> NoHeaders, authClient |-> [access_token |-> ""],
                         userId |-> ""])
  ELSE IF parts = <<>>
  THEN Conclude(r, req, NoAuthorizationHeader(req.headers))
  ELSE IF Len(parts) # 2 \/ ToLowerCase(parts[1]) # "bearer"
  THEN Conclude(r, req, BadAuthorizationHeader(req.headers))
  ELSE /\ Suspend(r, req)
       /\ UNCHANGED <<registries, minted, servers>>

\* a request as oauthMiddleware sees it
MwRequest(app, method, path, sessionId, parts, h) ==
  [kind |-> "mw", pc |-> "createOAuthClient", app |-> app, method |-> method,
   path |-> path, sessionId |-> sessionId,
   authorization |-> parts, headers |-> h,
   token |-> IF Len(parts) >= 2 THEN parts[2] ELSE "",
   keysOk |-> FALSE, tokenInfo |-> [ok |-> FALSE]]

\* oauthMiddleware called on a request, with no route behind it
MwStart(r) ==
  /\ Free(r)
  /\ started' = started + 1
  /\ \E path \in RequestPaths, parts \in AuthorizationHeaders, h \in RequestHeaders :
       Middleware(r, MwRequest("", "GET", path, "", parts, h))
  /\ UNCHANGED <<now, stores, drawn, history, NODE_ENV, lifecycle>>

\* oauthMiddleware after createOAuthClient has settled: oauth.ts:567-571
MwKeys(r) ==
  /\ reqs[r].kind = "mw"
  /\ reqs[r].pc = "createOAuthClient"
  /\ \E keysOk \in BOOLEAN :
       IF keysOk
       THEN /\ Suspend(r, [reqs[r] EXCEPT !.pc = "getTokenInfo", !.keysOk = TRUE])
            /\ UNCHANGED <<registries, minted, servers>>
       ELSE Conclude(r, reqs[r], ValidationFailed(reqs[r].headers))
  /\ UNCHANGED <<now, stores, drawn, started, history, NODE_ENV, lifecycle>>

\* oauthMiddleware after Google has answered getTokenInfo: oauth.ts:571-603
MwTokenInfo(r) ==
  /\ reqs[r].kind = "mw"
  /\ reqs[r].pc = "getTokenInfo"
  /\ \E tokenInfo \in TokenInfoAnswers :
       LET req == [reqs[r] EXCEPT !.tokenInfo = tokenInfo] IN
       IF ~tokenInfo.ok
       THEN /\ Conclude(r, req, ValidationFailed(req.headers))
            /\ UNCHANGED accepted
       ELSE IF ~hasRequiredScopes(tokenInfo)
       THEN /\ Conclude(r, req, InsufficientScope)
            /\ UNCHANGED accepted
       ELSE /\ Conclude(r, req, PassOn(req.token, tokenInfo))
            /\ accepted' = accepted \cup {req.token}
  /\ UNCHANGED <<now, stores, drawn, started, finished, produced, redeemed,
                 flows, handed, issued, NODE_ENV, lifecycle>>

\* ---- the session endpoints, entered by a request the validator passed on
\* req.authClient of such a request: the client for an accepted token
Validated == PassOn("at1", [email |-> ""])

\* ---- the SSE server: http-server.ts
\* GET /sse up to `await server.connect(transport)`: http-server.ts:89-108
SseOpen(r) ==
  /\ Free(r)
  /\ Running("sse")
  /\ started' = started + 1
  /\ GetSse(r, "sse", Validated.authClient.access_token)
  /\ UNCHANGED <<now, stores, drawn, history, NODE_ENV, lifecycle>>

\* GET /sse after server.connect has settled: http-server.ts:108-115 and
\* part_004:176-183
SseConnect(r) ==
  /\ reqs[r].kind = "sse"
  /\ reqs[r].pc = "connect"
  /\ Alive(reqs[r].app)
  /\ \E connected \in BOOLEAN :
       IF connected
       THEN Respond(r, reqs[r], ByTransport(200))
       ELSE Respond(r, reqs[r], SessionError(500, "Connection failed", ErrorMessage))
  /\ UNCHANGED <<now, stores, drawn, started, history, NODE_ENV, sessions>>

\* the "close" event of an SSE response: http-server.ts:102-106 and
\* part_004:170-174: the entry is deleted and server.close() is called
Disconnect(app) ==
  /\ Alive(app)
  /\ \E sessionId \in DOMAIN Registry(app) :
       /\ SetRegistry(app, MapDelete(Registry(app), sessionId))
       /\ servers' = [servers EXCEPT ![sessionId].status = "closed"]
  /\ out' = NoResponse
  /\ UNCHANGED <<now, stores, drawn, started, reqs, history, NODE_ENV,
                 minted, lifecycle>>

SseClose == Disconnect("sse")

\* POST /message up to `await transport.handlePostMessage`: http-server.ts:119-140
Message(r) ==
  /\ Free(r)
  /\ Running("sse")
  /\ started' = started + 1
  /\ \E sessionId \in PostableIds :
       PostMessage(r, "sse", sessionId, Validated.authClient.access_token)
  /\ UNCHANGED <<now, stores, drawn, history, NODE_ENV, lifecycle>>

\* POST /message after handlePostMessage has settled: http-server.ts:140-147
\* and part_004:208-215
MessageHandled(r) ==
  /\ reqs[r].kind = "message"
  /\ reqs[r].pc = "handlePostMessage"
  /\ Alive(reqs[r].app)
  /\ \E handled \in BOOLEAN :
       IF handled
       THEN Respond(r, [reqs[r] EXCEPT !.servedWith =
                          getAuth(servers[reqs[r].handedTo.sessionId])],
                    ByTransport(202))
       ELSE Respond(r, reqs[r], SessionError(500, "Message handling failed", ErrorMessage))
  /\ UNCHANGED <<now, stores, drawn, started, history, NODE_ENV, sessions>>

\* SIGTERM or SIGINT: server.close(callback), http-server.ts:196-210.  The
\* HTTP server stops accepting connections.
SseSignal ==
  /\ Running("sse")
  /\ phase' = [phase EXCEPT !["sse"] = "closing"]
  /\ out' = NoResponse
  /\ UNCHANGED <<now, stores, drawn, started, reqs, history, NODE_ENV,
                 registries, minted, servers, preAuthClient, shutdown>>

\* the callback of server.close: process.exit(0), http-server.ts:198-201.
\* The HTTP server calls it once every connection has ended: no request is
\* in flight and every event stream has been closed by its client.
SseExit ==
  /\ phase["sse"] = "closing"
  /\ transports = EmptyMap
  /\ \A r \in Reqs : reqs[r].kind \in {"sse", "message"} => reqs[r].app # "sse"
  /\ phase' = [phase EXCEPT !["sse"] = "exited"]
  /\ out' = NoResponse
  /\ UNCHANGED <<now, stores, drawn, started, reqs, history, NODE_ENV,
                 registries, minted, servers, preAuthClient, shutdown>>

\* ---- the hybrid server: part_004:1-301
\* main up to app.listen: `await loadPreAuthCredentials()`, part_004:25-55
\* and 249; the credentials are loaded, or preAuthClient stays null
loadPreAuthCredentials ==
  /\ phase["hybrid"] = "starting"
  /\ \E loaded \in {"", "pre-auth-client"} : preAuthClient' = loaded
  /\ phase' = [phase EXCEPT !["hybrid"] = "running"]
  /\ out' = NoResponse
  /\ UNCHANGED <<now, stores, drawn, started, reqs, history, NODE_ENV,
                 registries, minted, servers, shutdown>>

\* the "close" event of an SSE response: part_004:170-174
HybridClose == Disconnect("hybrid")

\* ---- the dual-transport server: part_004:303-640
\* mcpHandler up to its first await: part_004:413-466
McpStart(r) ==
  /\ Free(r)
  /\ Running("dual")
  /\ started' = started + 1
  /\ \E sessionId \in PostableIds, method \in Methods :
       McpRequest(r, sessionId, method, Validated.authClient.access_token)
  /\ UNCHANGED <<now, stores, drawn, history, NODE_ENV, lifecycle>>

\* mcpHandler after server.connect has settled: part_004:453-466
McpConnect(r) ==
  /\ reqs[r].kind = "mcp"
  /\ reqs[r].pc = "connect"
  /\ Alive("dual")
  /\ \E connected \in BOOLEAN :
       IF connected
       THEN Suspend(r, [reqs[r] EXCEPT !.pc = "handleRequest",
                          !.handedTo = StreamableHTTPServerTransport("")])
       ELSE Respond(r, reqs[r], SessionError(500, "Internal Server Error",
                                             DevelopmentOnly(NODE_ENV)))
  /\ UNCHANGED <<now, stores, drawn, started, history, NODE_ENV, sessions>>

\* mcpHandler after transport.handleRequest has settled; a new transport
\* that initialised its session has called onsessioninitialized:
\* part_004:434-440 and 466-478.  The _currentRequest of a new transport is
\* set and deleted by the one request that holds it, part_004:463-469.  A key added to `transports` while the
\* for-in loop of shutdown is running is visited by the loop or not.
McpHandled(r) ==
  /\ reqs[r].kind = "mcp"
  /\ reqs[r].pc = "handleRequest"
  /\ Alive("dual")
  /\ \E outcome \in {"initialized", "answered", "thrown"} :
       /\ outcome = "initialized" => (reqs[r].handedTo.sessionId = ""
                                      /\ minted < Len(SessionIds))
       /\ IF outcome = "initialized"
          THEN LET sid == randomUUID(minted)
                   transport == StreamableHTTPServerTransport(sid)
                   server == McpServer("dual", reqs[r].authClient) IN
               /\ transportsDual' = Register(transportsDual, transport)
               /\ servers' = MapSet(servers, sid, server)
               /\ minted' = minted + 1
               /\ Respond(r, [reqs[r] EXCEPT !.handedTo = transport,
                                             !.servedWith = getAuth(server)],
                          ByTransport(200))
               /\ IF phase["dual"] = "closing"
                  THEN \E visited \in BOOLEAN :
                         shutdown' = IF visited
                                     THEN [shutdown EXCEPT !.pending = @ \cup {sid}]
                                     ELSE shutdown
                  ELSE UNCHANGED shutdown
          ELSE LET sid == reqs[r].handedTo.sessionId IN
               /\ UNCHANGED <<transportsDual, minted, shutdown>>
               /\ IF outcome = "answered"
                  THEN \* delete (transport as any)._currentRequest: part_004:469
                       /\ Respond(r, [reqs[r] EXCEPT !.servedWith =
                                        getAuth(IF sid # "" THEN servers[sid]
                                                ELSE McpServer("dual", reqs[r].authClient))],
                                  ByTransport(200))
                       /\ servers' = IF sid # ""
                                     THEN [servers EXCEPT ![sid].currentRequest = ""]
                                     ELSE servers
                  ELSE \* the catch block leaves _currentRequest as it is
                       /\ Respond(r, reqs[r], SessionError(500, "Internal Server Error",
                                                           DevelopmentOnly(NODE_ENV)))
                       /\ UNCHANGED servers
  /\ UNCHANGED <<now, stores, drawn, started, history, NODE_ENV, transports,
                 transportsHybrid, preAuthClient, phase>>

\* GET /sse up to `await server.connect(transport)`: part_004:495-507
DualSseOpen(r) ==
  /\ Free(r)
  /\ Running("dual")
  /\ started' = started + 1
  /\ GetSse(r, "dual", Validated.authClient.access_token)
  /\ UNCHANGED <<now, stores, drawn, history, NODE_ENV, lifecycle>>

\* GET /sse after server.connect has settled: part_004:507-514
DualSseConnect(r) ==
  /\ reqs[r].kind = "dualSse"
  /\ reqs[r].pc = "connect"
  /\ Alive("dual")
  /\ \E connected \in BOOLEAN :
       IF connected
       THEN Respond(r, reqs[r], ByTransport(200))
       ELSE Respond(r, reqs[r],
                    SessionError(500, "Failed to establish SSE connection", ""))
  /\ UNCHANGED <<now, stores, drawn, started, history, NODE_ENV, sessions>>

\* the "close" event of an SSE response, or the onclose of a Streamable
\* HTTP transport: part_004:501-504 and 443-449: the entry is deleted
DualClose ==
  /\ Alive("dual")
  /\ \E sessionId \in DOMAIN transportsDual :
       transportsDual' = MapDelete(transportsDual, sessionId)
  /\ out' = NoResponse
  /\ UNCHANGED <<now, stores, drawn, started, reqs, history, NODE_ENV,
                 transports, transportsHybrid, minted, servers, lifecycle>>

\* POST /messages up to `await transport.handlePostMessage`: part_004:518-538
Messages(r) ==
  /\ Free(r)
  /\ Running("dual")
  /\ started' = started + 1
  /\ \E sessionId \in PostableIds :
       PostMessages(r, sessionId, Validated.authClient.access_token)
  /\ UNCHANGED <<now, stores, drawn, history, NODE_ENV, lifecycle>>

\* POST /messages after handlePostMessage has settled: part_004:538-544
MessagesHandled(r) ==
  /\ reqs[r].kind = "messages"
  /\ reqs[r].pc = "handlePostMessage"
  /\ Alive("dual")
  /\ \E handled \in BOOLEAN :
       IF handled
       THEN Respond(r, reqs[r], ByTransport(202))
       ELSE Respond(r, reqs[r], SessionError(500, "Failed to handle message", ""))
  /\ UNCHANGED <<now, stores, drawn, started, history, NODE_ENV, sessions>>

\* no shutdown loop is running
NoShutdown == [pending |-> {}, closing |-> ""]

\* the for-in loop of shutdown from the top of an iteration to its next
\* await, or to process.exit(0): part_004:614-626.  `keys` are the keys the
\* loop has still to visit; a key deleted meanwhile is skipped.
Iterate(keys, registry) ==
  LET live == keys \cap DOMAIN registry IN
  IF live = {}
  THEN /\ phase' = [phase EXCEPT !["dual"] = "exited"]
       /\ shutdown' = NoShutdown
       /\ UNCHANGED servers
  ELSE \E sessionId \in live :
         /\ phase' = [phase EXCEPT !["dual"] = "closing"]
         /\ shutdown' = [pending |-> keys \ {sessionId}, closing |-> sessionId]
         /\ servers' = [servers EXCEPT ![sessionId].transport = "closed"]

\* SIGTERM or SIGINT: shutdown up to its first await, part_004:608-617
DualSignal ==
  /\ Running("dual")
  /\ Iterate(DOMAIN transportsDual, transportsDual)
  /\ out' = NoResponse
  /\ UNCHANGED <<now, stores, drawn, started, reqs, history, NODE_ENV,
                 registries, minted, preAuthClient>>

\* shutdown after `await transports[sessionId].close()` has settled:
\* part_004:617-626
DualShutdownResume ==
  /\ phase["dual"] = "closing"
  /\ shutdown.closing # ""
  /\ \E closed \in BOOLEAN :
       LET registry == IF closed
                       THEN MapDelete(transportsDual, shutdown.closing)
                       ELSE transportsDual
       IN /\ transportsDual' = registry
          /\ Iterate(shutdown.pending, registry)
  /\ out' = NoResponse
  /\ UNCHANGED <<now, stores, drawn, started, reqs, history, NODE_ENV,
                 transports, transportsHybrid, minted, preAuthClient>>

\* ---- a request sent to one of the servers: it passes oauthMiddleware first
\* the routes behind the validator: http-server.ts:70-148, part_004:127-216
\* and part_004:483-518
AppRoutes ==
  {[app |-> a, method |-> "GET", path |-> "/sse"] : a \in Apps}
  \cup {[app |-> a, method |-> "POST", path |-> "/message"] : a \in {"sse", "hybrid"}}
  \cup {[app |-> "dual", method |-> m, path |-> p] :
          m \in Methods, p \in {"/mcp", "/"}}
  \cup {[app |-> "dual", method |-> "POST", path |-> "/messages"]}

\* the routes of one server
RoutesOf(app) == {route \in AppRoutes : route.app = app}

\* the routes that open a connection in the SSE server and in the
\* dual-transport server
OpeningRoutes ==
  {route \in AppRoutes :
     route.app \in {"sse", "dual"} /\ route.path \in {"/sse", "/mcp", "/"}}

\* Authorization header values of these requests
AppAuthorizations == {<<>>, <<"Bearer", "at1">>}

\* Authorization header values of two users' requests
TwoUsersAuthorizations == {<<"Bearer", t>> : t \in AccessTokens}

\* the session id of a request: the sessionId query parameter of a message
\* post, the MCP-Session-Id header of a request to the MCP endpoint
SessionIdsOf(route) == IF route.path = "/sse" THEN {""} ELSE PostableIds

AppRequest(r, routes, authorizations) ==
  /\ Free(r)
  /\ started' = started + 1
  /\ \E route \in routes, parts \in authorizations :
       \E sessionId \in SessionIdsOf(route) :
          /\ Running(route.app)
          /\ Middleware(r, MwRequest(route.app, route.method, route.path,
                                     sessionId, parts,
                                     [host |-> "localhost:3000", forwardedProto |-> <<>>,
                                      cloudFrontProto |-> "", forwardedHost |-> "",
                                      secure |-> FALSE]))
  /\ UNCHANGED <<now, stores, drawn, history, NODE_ENV, lifecycle>>

NextFlow ==
  \/ Tick
  \/ \E r \in Reqs : AuthorizeStart(r)
  \/ \E r \in Reqs : AuthorizeResume(r)
  \/ \E r \in Reqs : CallbackStart(r)
  \/ \E r \in Reqs : CallbackKeys(r)
  \/ \E r \in Reqs : CallbackToken(r)
  \/ \E r \in Reqs : TokenStart(r)
  \/ \E r \in Reqs : TokenParsed(r)
  \/ \E r \in Reqs : TokenKeys(r)
  \/ \E r \in Reqs : TokenRefresh(r)

NextValidator ==
  \/ \E r \in Reqs : handleOAuthMetadata(r)
  \/ \E r \in Reqs : MwStart(r)
  \/ \E r \in Reqs : MwKeys(r)
  \/ \E r \in Reqs : MwTokenInfo(r)

\* the callbacks and the code exchanges of flows that have been started
NextExchange ==
  \/ \E r \in Reqs : CallbackStart(r)
  \/ \E r \in Reqs : CallbackKeys(r)
  \/ \E r \in Reqs : CallbackToken(r)
  \/ \E r \in Reqs : TokenStart(r)
  \/ \E r \in Reqs : TokenParsed(r)

\* every handler that setupOAuthRoutes mounts, the validator and the
\* endpoints of the SSE server, serving one request at a time while the
\* clock runs
NextStores ==
  \/ Tick
  \/ AuthorizeStart("h1") \/ AuthorizeResume("h1")
  \/ CallbackStart("h1") \/ CallbackKeys("h1") \/ CallbackToken("h1")
  \/ TokenStart("h1") \/ TokenParsed("h1")
  \/ TokenKeys("h1") \/ TokenRefresh("h1")
  \/ RegisterStart("h1") \/ RegisterParsed("h1")
  \/ handleOAuthMetadata("h1") \/ handleAuthServerMetadata("h1")
  \/ AppRequest("h1", RoutesOf("sse"), AppAuthorizations)
  \/ MwKeys("h1") \/ MwTokenInfo("h1")
  \/ SseConnect("h1") \/ SseClose
  \/ MessageHandled("h1")

\* the discovery document alone, asked for with any combination of headers
NextMetadata == \E r \in Reqs : MetadataRequest(r)

NextSessions ==
  \/ \E r \in Reqs : SseOpen(r)
  \/ \E r \in Reqs : SseConnect(r)
  \/ SseClose
  \/ \E r \in Reqs : Message(r)
  \/ \E r \in Reqs : MessageHandled(r)
  \/ \E r \in Reqs : McpStart(r)
  \/ \E r \in Reqs : McpConnect(r)
  \/ \E r \in Reqs : McpHandled(r)
  \/ \E r \in Reqs : DualSseOpen(r)
  \/ \E r \in Reqs : DualSseConnect(r)
  \/ DualClose
  \/ \E r \in Reqs : Messages(r)
  \/ \E r \in Reqs : MessagesHandled(r)

\* the opening and the closing of sessions in the SSE server and in the
\* dual-transport server, and the shutdown of the two
NextShutdown ==
  \/ \E r \in Reqs : SseOpen(r)
  \/ \E r \in Reqs : SseConnect(r)
  \/ SseClose
  \/ SseSignal
  \/ SseExit
  \/ \E r \in Reqs : McpStart(r)
  \/ \E r \in Reqs : McpConnect(r)
  \/ \E r \in Reqs : McpHandled(r)
  \/ \E r \in Reqs : DualSseOpen(r)
  \/ \E r \in Reqs : DualSseConnect(r)
  \/ DualClose
  \/ DualSignal
  \/ DualShutdownResume

\* the connection-opening routes of the SSE server and of the
\* dual-transport server behind the validator
NextOpen ==
  \/ \E r \in Reqs : AppRequest(r, OpeningRoutes, AppAuthorizations)
  \/ \E r \in Reqs : MwKeys(r)
  \/ \E r \in Reqs : MwTokenInfo(r)
  \/ \E r \in Reqs : SseConnect(r)
  \/ \E r \in Reqs : McpConnect(r)
  \/ \E r \in Reqs : McpHandled(r)
  \/ \E r \in Reqs : DualSseConnect(r)
  \/ SseClose
  \/ DualClose

\* the SSE server behind the validator
NextSseApp ==
  \/ \E r \in Reqs : AppRequest(r, RoutesOf("sse"), AppAuthorizations)
  \/ \E r \in Reqs : MwKeys(r)
  \/ \E r \in Reqs : MwTokenInfo(r)
  \/ \E r \in Reqs : SseConnect(r)
  \/ \E r \in Reqs : MessageHandled(r)
  \/ SseClose

\* the SSE server behind the validator, used by two users
NextTwoUsers ==
  \/ \E r \in Reqs : AppRequest(r, RoutesOf("sse"), TwoUsersAuthorizations)
  \/ \E r \in Reqs : MwKeys(r)
  \/ \E r \in Reqs : MwTokenInfo(r)
  \/ \E r \in Reqs : SseConnect(r)
  \/ \E r \in Reqs : MessageHandled(r)
  \/ SseClose

\* the hybrid server behind the validator
NextHybridApp ==
  \/ loadPreAuthCredentials
  \/ \E r \in Reqs : AppRequest(r, RoutesOf("hybrid"), AppAuthorizations)
  \/ \E r \in Reqs : MwKeys(r)
  \/ \E r \in Reqs : MwTokenInfo(r)
  \/ \E r \in Reqs : SseConnect(r)
  \/ \E r \in Reqs : MessageHandled(r)
  \/ HybridClose

\* every route of the three servers behind the validator
NextApps ==
  \/ NextOpen \/ NextSseApp \/ NextHybridApp \/ NextTwoUsers
  \/ \E r \in Reqs : AppRequest(r, AppRoutes, AppAuthorizations \cup TwoUsersAuthorizations)
  \/ \E r \in Reqs : MessagesHandled(r)

Next ==
  \/ NextFlow \/ NextValidator \/ NextSessions \/ NextShutdown \/ NextApps
  \/ NextMetadata \/ NextStores

\* the whole server
Spec == Init /\ [][Next]_vars

\* the authorization flow alone: /oauth/authorize, /oauth/callback, /oauth/token
SpecFlow == Init /\ [][NextFlow]_vars

\* the bearer validator and the discovery document alone
SpecValidator == Init /\ [][NextValidator]_vars

\* the session endpoints of the SSE server and of the dual-transport
\* server, entered by validated requests
SpecSessions == Init /\ [][NextSessions]_vars

\* sessions opening and closing while the two servers shut down
SpecShutdown == Init /\ [][NextShutdown]_vars

\* requests to the connection-opening routes, from their arrival at the
\* validator on
SpecOpen == Init /\ [][NextOpen]_vars

\* requests to the SSE server, from their arrival at the validator on
SpecSseApp == Init /\ [][NextSseApp]_vars

\* requests of two users to the SSE server, each with the user's own token
SpecTwoUsers == Init /\ [][NextTwoUsers]_vars

\* requests to the hybrid server, from its start on
SpecHybridApp == Init /\ [][NextHybridApp]_vars

\* all endpoints, one request at a time, while the clock runs
SpecStores == Init /\ [][NextStores]_vars

\* two started flows, their callbacks and code exchanges interleaved
SpecTwoFlows == InitTwoFlows /\ [][NextExchange]_vars

\* the discovery document alone, asked for with any combination of headers
SpecMetadata == Init /\ [][NextMetadata]_vars

\* the OAuth handlers and the validator, serving one request at a time
\* within one sweep period
NextSerial ==
  \/ AuthorizeStart("h1") \/ AuthorizeResume("h1")
  \/ CallbackStart("h1") \/ CallbackKeys("h1") \/ CallbackToken("h1")
  \/ TokenStart("h1") \/ TokenParsed("h1")
  \/ TokenKeys("h1") \/ TokenRefresh("h1")
  \/ handleOAuthMetadata("h1")
  \/ MwStart("h1") \/ MwKeys("h1") \/ MwTokenInfo("h1")

SpecSerial == Init /\ [][NextSerial]_vars

\* ================================================================ claims
\* the step has answered a request
Answered == out' # NoResponse /\ out' # out

\* a record with this timestamp is older than the TTL at time t
Expired(timestamp, t) == timestamp < t - TTL

\* C1: once /oauth/token has returned a token response for a proxy code,
\* every later authorization_code request with that code is answered
\* 400 invalid_grant.
C1_ReplayIsInvalidGrant ==
  [][(/\ Answered
      /\ out'.req.kind = "token"
      /\ out'.req.grant_type = "authorization_code"
      /\ out'.req.code \in DOMAIN redeemed)
     => (out'.res.status = 400 /\ out'.res.error = "invalid_grant")]_vars

\* C1 witness: a replay of a redeemed code has just been refused.
C1_Witness ==
  /\ out.req.kind = "token"
  /\ out.req.bodyOk
  /\ out.req.code \in DOMAIN redeemed
  /\ out.res.status = 400
  /\ out.res.error = "invalid_grant"

\* C2: once a callback carrying state s has passed state validation and
\* finished (in success or in failure), every later callback carrying s is
\* rejected at once with a failure page and gets no further.
C2_StateValidForOneCallback ==
  [][\A r \in Reqs :
       \A s \in finished :
          (/\ reqs[r].kind = "idle"
           /\ \/ reqs'[r].kind = "callback" /\ reqs'[r].state = s
              \/ Answered /\ out'.req.kind = "callback" /\ out'.req.state = s)
          => (/\ reqs'[r].kind = "idle"
              /\ out'.res.status = 400
              /\ out'.res.format = "html")]_vars

\* C3: of the callbacks in flight together with the same state, at most one
\* is at Google's token exchange, and at most one proxy code or token page
\* is produced for a state.
C3_AtMostOneExchangePerState ==
  /\ \A r1, r2 \in Reqs :
        (/\ reqs[r1].kind = "callback" /\ reqs[r1].pc = "getToken"
         /\ reqs[r2].kind = "callback" /\ reqs[r2].pc = "getToken"
         /\ reqs[r1].state = reqs[r2].state)
        => r1 = r2
  /\ \A s \in DOMAIN produced : produced[s] <= 1

\* C4: whatever the interleaving of token requests with the same proxy
\* code, at most one token response is returned for a code, and no
\* authorization_code request is suspended between the lookup and the
\* delete of its code (it is suspended only before the body is read).
C4_OneTokenResponsePerCode ==
  /\ \A c \in DOMAIN redeemed : redeemed[c] <= 1
  /\ \A c \in DOMAIN redeemed : ~MapHas(authorizationCodes, c)
  /\ \A r \in Reqs :
        (reqs[r].kind = "token" /\ reqs[r].grant_type = "authorization_code")
        => (reqs[r].pc = "parseBody" /\ ~reqs[r].bodyOk)

\* C4 witness: one of two requests in flight with the same code has just
\* received the tokens while the other is still suspended.
C4_Witness ==
  /\ out.req.kind = "token"
  /\ out.res.status = 200
  /\ out.req.grant_type = "authorization_code"
  /\ \E r \in Reqs : /\ reqs[r].kind = "token"
                     /\ reqs[r].grant_type = "authorization_code"
                     /\ reqs[r].code = out.req.code

\* C5: a state or code record older than the TTL is unusable even on first
\* use: no callback passes state validation on such a state record, and
\* no token response is returned from such a code record.
C5_ExpiredRecordUnusable ==
  [][/\ \A r \in Reqs :
          (/\ reqs[r].kind = "idle"
           /\ reqs'[r].kind = "callback"
           /\ MapHas(oauthStates, reqs'[r].state))
          => ~Expired(oauthStates[reqs'[r].state].timestamp, now)
     /\ (/\ Answered
         /\ out'.req.kind = "token"
         /\ out'.res.status = 200
         /\ MapHas(authorizationCodes, out'.req.code))
        => ~Expired(authorizationCodes[out'.req.code].timestamp, now)]_vars

\* C6 as stated: when any /oauth/authorize call has completed no state
\* record older than the TTL remains, and when any /oauth/callback call has
\* completed no code record older than the TTL remains.
C6_AnyCallSweeps ==
  /\ out.req.kind = "authorize"
     => \A k \in DOMAIN oauthStates : ~Expired(oauthStates[k].timestamp, now)
  /\ out.req.kind = "callback"
     => \A k \in DOMAIN authorizationCodes :
           ~Expired(authorizationCodes[k].timestamp, now)

\* C6 as amended: when an /oauth/authorize call that stored a pending
\* record has completed, no state record older than the TTL remains; when
\* an /oauth/callback call that stored a proxy code has completed, no code
\* record older than the TTL remains.
C6_StoringCallSweeps ==
  /\ (out.req.kind = "authorize" /\ out.res.status = 302)
     => \A k \in DOMAIN oauthStates : ~Expired(oauthStates[k].timestamp, now)
  /\ (out.req.kind = "callback" /\ out.req.authCode # "")
     => \A k \in DOMAIN authorizationCodes :
           ~Expired(authorizationCodes[k].timestamp, now)

\* C6 witness: an /oauth/authorize call has just stored a record and an
\* earlier state, never consumed by a callback, is gone from the store.
C6_Witness ==
  /\ out.req.kind = "authorize"
  /\ out.res.status = 302
  /\ \E s \in DOMAIN flows :
        /\ ~MapHas(oauthStates, s)
        /\ ~MapHas(produced, s)

\* C7: when Google calls back with the pending state of a flow started with
\* redirect_uri R and client state S and accepts the code, the proxy
\* redirects to R with a newly minted proxy code (not Google's code, not in
\* the code store before) and with S; and a token exchange with a proxy code
\* that is in the store returns the access token Google issued when that
\* code was minted.
C7_FlowHandsBackGoogleToken ==
  [][Answered =>
     /\ (/\ out'.req.kind = "callback"
         /\ out'.req.exchange = "ok"
         /\ flows[out'.req.state].redirect_uri \in ParsableUrls)
        => (/\ out'.res.status = 302
            /\ out'.res.to = flows[out'.req.state].redirect_uri
            /\ out'.res.state = flows[out'.req.state].state
            /\ out'.res.code # out'.req.code
            /\ ~MapHas(authorizationCodes, out'.res.code)
            /\ MapHas(authorizationCodes', out'.res.code))
     /\ (/\ out'.req.kind = "token"
         /\ out'.req.bodyOk
         /\ out'.req.grant_type = "authorization_code"
         /\ MapHas(authorizationCodes, out'.req.code))
        => (/\ out'.res.status = 200
            /\ out'.res.access_token = issued[out'.req.code])]_vars

\* C7 witness: a code that was sent to the client in a redirect has just
\* been exchanged for the access token Google issued.
C7_Witness ==
  /\ out.req.kind = "token"
  /\ out.res.status = 200
  /\ out.req.code \in handed
  /\ out.res.access_token = issued[out.req.code]

\* the request the validator has just answered reached a protected route
ProtectedAnswered == out.req.kind = "mw" /\ ~InPublicPaths(out.req.path)

\* the Authorization header of the answered request has the form "Bearer <token>"
WellFormedBearer ==
  /\ Len(out.req.authorization) = 2
  /\ ToLowerCase(out.req.authorization[1]) = "bearer"

\* C8: a protected request with no Authorization header, with a header not
\* of the form "Bearer <token>", or with a token Google's token-info call
\* rejects is answered 401; every 401 of the validator carries a
\* WWW-Authenticate header whose resource_metadata is the URL, on this
\* server, of the route that serves the protected-resource metadata; and
\* that metadata lists at least one authorization server.
C8_UnauthorizedCarriesDiscovery ==
  /\ (/\ ProtectedAnswered
      /\ \/ ~WellFormedBearer
         \/ out.req.pc = "getTokenInfo" /\ ~out.req.tokenInfo.ok)
     => out.res.status = 401
  /\ (out.req.kind = "mw" /\ out.res.status = 401)
     => LET url == out.res.headers.www_authenticate.resource_metadata IN
        /\ out.res.headers.www_authenticate.scheme = "Bearer"
        /\ Len(url) = 3
        /\ SubSeq(url, 1, 2) = getServerUrl(out.req.headers)
        /\ url[3] \in DOMAIN Routes
        /\ Routes[url[3]] = "handleOAuthMetadata"
  /\ out.req.kind = "metadata"
     => Len(out.res.authorization_servers) >= 1

\* C8 witness: a request whose token Google rejected has just been answered
\* 401 with the pointer to the metadata of the forwarded host.
C8_Witness ==
  /\ ProtectedAnswered
  /\ out.req.pc = "getTokenInfo"
  /\ ~out.req.tokenInfo.ok
  /\ out.res.status = 401
  /\ out.res.headers.www_authenticate.resource_metadata =
       <<"https", "mcp.example.com", "/.well-known/oauth-protected-resource">>

\* C9: a token Google's token-info call accepts but whose scopes contain
\* neither drive.readonly nor drive.metadata.readonly is answered 403
\* insufficient_scope and is not passed on; a token whose scopes contain at
\* least one of the two is passed on with a client for that token attached.
C9_ScopeCheck ==
  (ProtectedAnswered /\ out.req.pc = "getTokenInfo" /\ out.req.tokenInfo.ok)
  => IF \/ ~out.req.tokenInfo.hasScopes
        \/ {"drive.readonly", "drive.metadata.readonly"} \cap out.req.tokenInfo.scopes = {}
     THEN /\ out.res.status = 403
          /\ out.res.error = "insufficient_scope"
          /\ out.res.format # "next"
     ELSE /\ out.res.format = "next"
          /\ out.res.authClient = [access_token |-> out.req.token]

\* C9 witness: a token that Google accepted with scopes other than the two
\* Drive scopes has just been refused with 403.
C9_Witness ==
  /\ ProtectedAnswered
  /\ out.req.pc = "getTokenInfo"
  /\ out.req.tokenInfo.ok
  /\ out.req.tokenInfo.scopes = {"email"}
  /\ out.res.status = 403

\* C10: a protected request with a well-formed Bearer header is decided by
\* its own token-info call: it is passed on only when that call succeeded,
\* it is answered 401 when that call failed, whether or not the same token
\* was accepted before, and it is answered without a token-info call only
\* when the key provider failed (then with 401); nothing is cached.
C10_FreshValidation ==
  /\ userTokens = EmptyMap
  /\ (ProtectedAnswered /\ WellFormedBearer)
     => /\ out.res.format = "next"
           => (out.req.pc = "getTokenInfo" /\ out.req.tokenInfo.ok)
        /\ (out.req.pc = "getTokenInfo" /\ ~out.req.tokenInfo.ok)
           => out.res.status = 401
        /\ out.req.pc # "getTokenInfo"
           => (~out.req.keysOk /\ out.res.status = 401)

\* C10 witness: a token the validator passed on earlier has just been
\* answered 401 because Google rejected it this time.
C10_Witness ==
  /\ ProtectedAnswered
  /\ WellFormedBearer
  /\ out.req.token \in accepted
  /\ out.req.pc = "getTokenInfo"
  /\ ~out.req.tokenInfo.ok
  /\ out.res.status = 401

\* the text of the 400 that refuses a session of the other transport family
DifferentProtocol == "Session exists but uses a different transport protocol"

\* C11: a message posted with session id A is handed only to the transport
\* registered under A, never to one registered under another id; a post
\* whose session id is not in the registry is answered 404 and is handed to
\* no transport.
C11_SessionIsolation ==
  [][/\ \A r \in Reqs :
          (/\ reqs[r].kind = "idle"
           /\ reqs'[r].kind \in {"message", "messages"})
          => LET registry == IF reqs'[r].kind = "message"
                             THEN transports ELSE transportsDual
                 A == reqs'[r].sessionId
             IN /\ MapHas(registry, A)
                /\ reqs'[r].handedTo = registry[A]
                /\ \A B \in DOMAIN registry \ {A} :
                      reqs'[r].handedTo # registry[B]
     /\ (/\ started' = started + 1
         /\ out'.req.kind \in {"message", "messages"}
         /\ out'.req.sessionId # ""
         /\ ~MapHas(IF out'.req.kind = "message" THEN transports
                    ELSE transportsDual, out'.req.sessionId))
        => (/\ out'.res.status = 404
            /\ out'.req.handedTo = undefined)]_vars

\* C12: in the dual-transport server a session id registered for one
\* transport family and presented at the other family's endpoint (an SSE
\* session id in the MCP-Session-Id header of the MCP endpoint, a Streamable
\* HTTP session id on POST /messages) is refused with 400 "different
\* transport protocol" and the request is not handed to the registered
\* transport.
C12_CrossProtocolRejected ==
  [][started' = started + 1 =>
     /\ \A r \in Reqs :
          (/\ reqs[r].kind = "idle"
           /\ reqs'[r].kind \in {"mcp", "messages"}
           /\ MapHas(transportsDual, reqs'[r].sessionId))
          => /\ reqs'[r].kind = "mcp"
                => transportsDual[reqs'[r].sessionId].family # "sse"
             /\ reqs'[r].kind = "messages"
                => transportsDual[reqs'[r].sessionId].family # "streamable"
     /\ (/\ out'.req.kind \in {"mcp", "messages"}
         /\ MapHas(transportsDual, out'.req.sessionId)
         /\ transportsDual[out'.req.sessionId].family =
              (IF out'.req.kind = "mcp" THEN "sse" ELSE "streamable"))
        => (/\ out'.res.status = 400
            /\ \/ out'.res.error = DifferentProtocol
               \/ out'.res.description = DifferentProtocol
            /\ out'.req.handedTo = undefined)]_vars

\* C12 witness: a post to /messages carrying the id of a live Streamable
\* HTTP session has just been refused.
C12_Witness ==
  /\ out.req.kind = "messages"
  /\ MapHas(transportsDual, out.req.sessionId)
  /\ transportsDual[out.req.sessionId].family = "streamable"
  /\ out.res.status = 400
  /\ out.res.error = DifferentProtocol

\* C13: a /oauth/callback request calls Google's token exchange only if it
\* has no error parameter and its state value is in the state store at the
\* moment of the call; in every other case it renders a failure page and
\* leaves the state store and the code store unchanged.
C13_ExchangeOnlyForStoredState ==
  [][/\ \A r \in Reqs :
          (/\ reqs[r].pc # "getToken"
           /\ reqs'[r].kind = "callback"
           /\ reqs'[r].pc = "getToken")
          => (/\ reqs'[r].error = ""
              /\ MapHas(oauthStates, reqs'[r].state))
     /\ (/\ Answered
         /\ out'.req.kind = "callback"
         /\ \/ out'.req.error # ""
            \/ ~MapHas(oauthStates, out'.req.state))
        => (/\ out'.res.format = "html"
            /\ out'.res.status >= 400
            /\ UNCHANGED <<oauthStates, authorizationCodes>>)]_vars

C15_AuthorizeStoresItsState ==
  [][(Answered /\ out'.req.kind = "authorize") =>
     IF out'.req.response_type \notin {"", "code"}
     THEN /\ out'.res.status = 400
          /\ out'.res.error = "unsupported_response_type"
          /\ out'.res.format # "redirect"
          /\ UNCHANGED oauthStates
     ELSE out'.res.status = 302
          => (/\ out'.res.to = "google"
              /\ DOMAIN oauthStates' \ DOMAIN oauthStates = {out'.res.state}
              /\ oauthStates'[out'.res.state].clientRedirectUri = out'.req.redirect_uri
              /\ oauthStates'[out'.res.state].clientState = out'.req.state)]_vars

\* C15 witness: a second flow has just been started and both pending
\* records are in the store, the new one under the state sent to Google.
C15_Witness ==
  /\ out.req.kind = "authorize"
  /\ out.res.status = 302
  /\ MapHas(oauthStates, out.res.state)
  /\ Cardinality(DOMAIN oauthStates) >= 2

\* the request the validator has just answered went on to the next handler
\* without any check of its Authorization header
Bypassed ==
  /\ out.res.format = "next"
  /\ out.req.pc = "createOAuthClient"
  /\ out.res.authClient.access_token = ""

\* C16 as stated: every request whose path is the health path, a path under
\* /oauth/ or a path under /.well-known/ bypasses bearer validation: it is
\* passed on without a look at the Authorization header and is never
\* answered 401 or 403.
C16_PublicPrefixesBypass ==
  (/\ out.req.kind = "mw"
   /\ \/ out.req.path = "/health"
      \/ StartsWith(out.req.path, "/oauth/")
      \/ StartsWith(out.req.path, "/.well-known/"))
  => (Bypassed /\ out.res.status \notin {401, 403})

\* C16 as amended: a request whose path is exactly one of the eight listed
\* public paths bypasses bearer validation; a request to any other path,
\* also one under /oauth/ or /.well-known/, is validated like a protected
\* path (without an Authorization header it is answered 401).
C16_ListedPathsBypass ==
  out.req.kind = "mw" =>
    IF out.req.path \in
         {"/health", "/oauth/authorize", "/oauth/callback", "/oauth/token",
          "/oauth/register", "/.well-known/oauth-protected-resource",
          "/.well-known/oauth-authorization-server",
          "/.well-known/openid-configuration"}
    THEN Bypassed /\ out.res.status \notin {401, 403}
    ELSE /\ ~Bypassed
         /\ out.req.authorization = <<>> => out.res.status = 401

\* C16 witness: a request to /oauth/register with a header that is no
\* Bearer header has just been passed on unchecked.
C16_Witness ==
  /\ out.req.kind = "mw"
  /\ out.req.path = "/oauth/register"
  /\ out.req.authorization = <<"Basic", "dXNlcg==">>
  /\ Bypassed

\* C17: the 403 insufficient_scope response of the validator carries the
\* discovery headers of its 401 responses: WWW-Authenticate with
\* resource_metadata, and Link with rel=oauth-protected-resource.
C17_ForbiddenCarriesDiscovery ==
  (out.req.kind = "mw" /\ out.res.status = 403)
  => (/\ out.res.headers.www_authenticate.scheme = "Bearer"
      /\ out.res.headers.www_authenticate.resource_metadata =
           UrlAt(getServerUrl(out.req.headers),
                 "/.well-known/oauth-protected-resource")
      /\ out.res.headers.link.rel = "oauth-protected-resource")

\* C18: when Google's refresh call fails during a refresh_token grant the
\* response is an upstream error, 500 server_error or 401; it is never a 400.
C18_RefreshFailureIsUpstreamError ==
  (/\ out.req.kind = "token"
   /\ out.req.pc = "refreshAccessToken"
   /\ out.res.status # 200)
  => (/\ out.res.status \in {500, 401}
      /\ out.res.status = 500 => out.res.error = "server_error")

\* the last step answered a request of this kind with a failure
Failed(kind) == out.req.kind = kind /\ out.res.status >= 400

\* the response is structured JSON {error, error_description}
StructuredJson(res) ==
  res.format = "json" /\ res.error # "" /\ res.description # ""

\* C19 as stated: every failure of /oauth/authorize and of /oauth/callback
\* is an HTML failure page, and every failure of /oauth/token and of the
\* bearer validator is structured JSON {error, error_description}.
C19_FailureFormats ==
  /\ (Failed("authorize") \/ Failed("callback")) => out.res.format = "html"
  /\ (Failed("token") \/ Failed("mw")) => StructuredJson(out.res)

\* C19 as amended: every failure of /oauth/callback is an HTML failure page;
\* every failure of /oauth/authorize, of /oauth/token and of the bearer
\* validator is structured JSON {error, error_description}.
C19_FailureFormatsByHandler ==
  /\ Failed("callback") => out.res.format = "html"
  /\ (Failed("authorize") \/ Failed("token") \/ Failed("mw"))
     => StructuredJson(out.res)

\* C19 witness: a callback whose token exchange Google refused has just
\* been answered with a failure page.
C19_Witness ==
  /\ Failed("callback")
  /\ out.req.exchange = "failed"
  /\ out.res.format = "html"

\* C20: unless NODE_ENV is "development", no failure response contains the
\* message of an internal exception.
C20_NoExceptionMessageInProduction ==
  (NODE_ENV # "development" /\ out.res.status >= 400)
  => out.res.description # ErrorMessage

\* C28: a code enters the code store only in the step in which a
\* /oauth/callback answers whose pending record carried a clientRedirectUri
\* and whose Google token exchange succeeded; a callback of the manual flow
\* (no clientRedirectUri) whose exchange succeeded renders the token page and
\* leaves the code store unchanged.
C28_CodeOnlyFromClientCallback ==
  [][/\ (DOMAIN authorizationCodes') \ (DOMAIN authorizationCodes) # {}
        => (/\ out'.req.kind = "callback"
            /\ out'.req.exchange = "ok"
            /\ out'.req.clientRedirectUri # ""
            /\ flows[out'.req.state].redirect_uri # ""
            /\ (DOMAIN authorizationCodes') \ (DOMAIN authorizationCodes)
                 = {out'.req.authCode})
     /\ \A r \in Reqs :
          (/\ reqs[r].kind = "callback"
           /\ reqs[r].pc = "getToken"
           /\ reqs'[r].kind = "idle"
           /\ out'.req.exchange = "ok"
           /\ flows[reqs[r].state].redirect_uri = "")
          => (/\ out'.res.status = 200
              /\ out'.res.format = "html"
              /\ out'.res.error = ""
              /\ authorizationCodes' = authorizationCodes)]_vars

\* C28 witness: a manual-flow callback has just rendered its token page
\* while the code store holds the code an earlier client-flow callback added.
C28_Witness ==
  /\ out.req.kind = "callback"
  /\ out.req.exchange = "ok"
  /\ out.req.clientRedirectUri = ""
  /\ out.res.status = 200
  /\ \E c \in DOMAIN authorizationCodes : c \in handed

\* C29: the step in which a refresh_token grant succeeds answers with a
\* token response that has no refresh_token field and leaves the state store
\* and the code store as they were.
C29_RefreshReissuesNothing ==
  [][\A r \in Reqs :
       (/\ reqs[r].kind = "token"
        /\ reqs[r].pc = "refreshAccessToken"
        /\ reqs'[r].kind = "idle"
        /\ out'.res.status = 200)
       => (/\ "access_token" \in DOMAIN out'.res
           /\ "refresh_token" \notin DOMAIN out'.res
           /\ oauthStates' = oauthStates
           /\ authorizationCodes' = authorizationCodes)]_vars

\* C29 witness: a refresh grant has just succeeded while both stores hold a
\* record.
C29_Witness ==
  /\ out.req.kind = "token"
  /\ out.req.grant_type = "refresh_token"
  /\ out.res.status = 200
  /\ oauthStates # EmptyMap
  /\ authorizationCodes # EmptyMap

\* C30: when an authorization_code grant succeeds for a code whose stored
\* tokens carry an expiry timestamp, expires_in is the whole number of
\* seconds from now to that expiry, and is not larger than the time the
\* token has left.
C30_ExpiresInIsRemainingLifetime ==
  [][\A r \in Reqs :
       (/\ reqs'[r].kind = "idle"
        /\ out'.req.kind = "token"
        /\ out'.req.grant_type = "authorization_code"
        /\ out'.res.status = 200
        /\ MapHas(authorizationCodes, out'.req.code)
        /\ ~MapHas(authorizationCodes', out'.req.code)
        /\ authorizationCodes[out'.req.code].tokens.expiry_date # 0)
       => LET expiry == authorizationCodes[out'.req.code].tokens.expiry_date
          IN /\ out'.res.expires_in = (expiry - now) \div 1000
             /\ out'.res.expires_in * 1000 <= expiry - now]_vars

\* the session was registered with this server once and is registered no more
Gone(app, sessionId) ==
  /\ MapHas(servers, sessionId)
  /\ servers[sessionId].app = app
  /\ ~MapHas(Registry(app), sessionId)

\* C21: a step that removes a session's entry from a registry (the close
\* event of its stream, the onclose of its transport) also closes the MCP
\* server bound to that transport; and a message posted with the id of a
\* removed session is answered at once with a session-not-found error (404,
\* or 400 in the dual-transport server) and is handed to no transport.
C21_DisconnectTearsDown ==
  [][/\ \A app \in Apps : \A sessionId \in DOMAIN Registry(app) :
          ~MapHas(Registry(app)', sessionId)
          => servers'[sessionId].status = "closed"
     /\ \A r \in Reqs :
          (/\ reqs[r].kind = "idle"
           /\ reqs'[r].kind \in {"message", "messages", "mcp"})
          => ~Gone(reqs'[r].app, reqs'[r].sessionId)
     /\ (/\ started' = started + 1
         /\ out'.req.kind \in {"message", "messages", "mcp"}
         /\ Gone(out'.req.app, out'.req.sessionId))
        => (/\ out'.res.status \in {400, 404}
            /\ out'.req.handedTo = undefined)]_vars

\* C22: when a server process has exited after SIGTERM or SIGINT, close has
\* been invoked on every transport that is in its session registry (on the
\* transport itself, or on the MCP server bound to it).
C22_ShutdownClosesTransports ==
  \A app \in Apps :
     phase[app] = "exited"
     => \A sessionId \in DOMAIN Registry(app) :
           \/ servers[sessionId].transport = "closed"
           \/ servers[sessionId].status = "closed"

C24_MessageAuthorisedBySessionId ==
  [][/\ (/\ Answered
         /\ out'.req.kind = "mw"
         /\ out'.req.app = "sse"
         /\ out'.req.path = "/message")
        => out'.res.format = "next"
     /\ (/\ Answered
         /\ out'.req.kind = "message"
         /\ out'.req.app = "sse"
         /\ out'.req.pc = "start")
        => IF MapHas(transports, out'.req.sessionId)
           THEN FALSE
           ELSE out'.req.sessionId # "" => out'.res.status = 404
     /\ \A r \in Reqs :
          (/\ reqs'[r].kind = "message"
           /\ reqs'[r].app = "sse"
           /\ reqs'[r].pc = "handlePostMessage"
           /\ reqs[r] # reqs'[r])
          => (/\ MapHas(transports, reqs'[r].sessionId)
              /\ reqs'[r].handedTo = transports[reqs'[r].sessionId])]_vars

\* the request that has arrived in slot r in this step: it is suspended in
\* the slot, or it has been answered at once
Arrived(r) ==
  /\ reqs[r].kind = "idle"
  /\ started' = started + 1
  /\ (reqs'[r].kind # "idle" \/ out' # NoResponse)

\* C26: in the hybrid server with pre-authenticated credentials loaded, a
\* GET /sse that carries no Authorization header opens a session: its
\* transport is registered, and the auth provider of its handlers returns
\* the pre-authenticated client.
C26_PreAuthConnectsWithoutBearer ==
  [][\A r \in Reqs :
       LET q == IF reqs'[r].kind # "idle" THEN reqs'[r] ELSE out'.req IN
       (/\ Arrived(r)
        /\ preAuthClient # ""
        /\ \/ (/\ q.kind = "mw" /\ q.app = "hybrid" /\ q.method = "GET"
               /\ q.path = "/sse" /\ q.authorization = <<>>)
           \/ (/\ q.kind = "sse" /\ q.app = "hybrid" /\ q.authClient = ""))
       => (/\ q.kind = "sse"
           /\ MapHas(transportsHybrid', q.sessionId)
           /\ AuthProvider(servers'[q.sessionId], preAuthClient) = preAuthClient)]_vars

\* a Streamable HTTP transport that server.connect was called on and that
\* has not initialised a session is held by the request that created it
BoundUnregistered(r) ==
  /\ reqs[r].kind = "mcp"
  /\ \/ reqs[r].pc = "connect"
     \/ reqs[r].pc = "handleRequest" /\ reqs[r].handedTo.sessionId = ""

\* C27 as stated: in no reachable state is a transport bound to an MCP
\* server while it is absent from the session registry.
C27_NeverBoundWhileUnregistered ==
  /\ \A sessionId \in DOMAIN servers :
        servers[sessionId].status = "bound"
        => MapHas(Registry(servers[sessionId].app), sessionId)
  /\ \A r \in Reqs : ~BoundUnregistered(r)

\* C27 as amended: the step in which a GET /sse handler binds its transport
\* to a new MCP server has entered the transport in the registry; a
\* Streamable HTTP transport enters the registry only in a step of the
\* request that created it, after that request has bound it to its MCP
\* server.
C27_SseRegisteredWhenBound ==
  [][/\ \A r \in Reqs :
          (/\ reqs[r].kind = "idle"
           /\ reqs'[r].kind \in {"sse", "dualSse"})
          => (/\ ~MapHas(servers, reqs'[r].sessionId)
              /\ servers'[reqs'[r].sessionId].status = "bound"
              /\ \E app \in Apps :
                    /\ app = reqs'[r].app
                    /\ MapHas(Registry(app)', reqs'[r].sessionId)
                    /\ Registry(app)'[reqs'[r].sessionId]
                         = SSEServerTransport(reqs'[r].sessionId))
     /\ \A sessionId \in (DOMAIN transportsDual') \ (DOMAIN transportsDual) :
          transportsDual'[sessionId].family = "streamable"
          => \E r \in Reqs :
                /\ BoundUnregistered(r)
                /\ reqs[r].pc = "handleRequest"
                /\ reqs'[r].kind = "idle"
                /\ out'.req.handedTo = transportsDual'[sessionId]]_vars

\* C27 witness: a Streamable HTTP session has just been registered by the
\* request that had bound its transport, while a GET /sse handler that has
\* registered and bound its transport awaits server.connect.
C27_Witness ==
  /\ out.req.kind = "mcp"
  /\ out.req.sessionId = ""
  /\ MapHas(transportsDual, out.req.handedTo.sessionId)
  /\ \E r \in Reqs :
        /\ reqs[r].kind \in {"sse", "dualSse"}
        /\ reqs[r].pc = "connect"
        /\ MapHas(Registry(reqs[r].app), reqs[r].sessionId)

\* C31 as stated: in the public URL of every discovery document, the scheme
\* is the first value of X-Forwarded-Proto whenever that header is present
\* and the host is X-Forwarded-Host whenever that header is present; the
\* cloudfront.net case decides only when X-Forwarded-Proto is absent.
C31_ForwardedHeadersPreferred ==
  out.req.kind = "metadata"
  => LET h == out.req.headers
         serverUrl == out.res.resource
     IN /\ h.forwardedProto # <<>> => serverUrl[1] = Trim(h.forwardedProto[1])
        /\ h.forwardedHost # "" => serverUrl[2] = h.forwardedHost

\* C31 as amended: a Host header containing cloudfront.net makes the scheme
\* https whatever the other headers say; otherwise the scheme is the first
\* value of X-Forwarded-Proto when present, else CloudFront-Forwarded-Proto
\* when present, else the scheme of the connection.  The host is
\* X-Forwarded-Host when present, else the Host header.
C31_CloudfrontThenForwarded ==
  out.req.kind = "metadata"
  => LET h == out.req.headers
         serverUrl == out.res.resource
     IN /\ IncludesCloudfront(h.host) => serverUrl[1] = "https"
        /\ (~IncludesCloudfront(h.host) /\ h.forwardedProto # <<>>)
           => serverUrl[1] = Trim(h.forwardedProto[1])
        /\ (~IncludesCloudfront(h.host) /\ h.forwardedProto = <<>>
              /\ h.cloudFrontProto # "")
           => serverUrl[1] = h.cloudFrontProto
        /\ (~IncludesCloudfront(h.host) /\ h.forwardedProto = <<>>
              /\ h.cloudFrontProto = "")
           => serverUrl[1] = IF h.secure THEN "https" ELSE "http"
        /\ serverUrl[2] = IF h.forwardedHost # "" THEN h.forwardedHost ELSE h.host

\* C31 witness: a discovery document asked for through a cloudfront.net
\* host with X-Forwarded-Proto: http names an https URL.
C31_Witness ==
  /\ out.req.kind = "metadata"
  /\ IncludesCloudfront(out.req.headers.host)
  /\ out.req.headers.forwardedProto = <<"http">>
  /\ out.req.headers.forwardedHost = "mcp.example.com"
  /\ out.res.resource = <<"https", "mcp.example.com">>

\* C32: under every interleaving of the callbacks and code exchanges of two
\* flows, each code in the code store holds the access token Google issued
\* in the callback that minted it, and a token response of /oauth/token for
\* a proxy code carries the access token recorded for that code, never the
\* one recorded for another code.
C32_CodeYieldsItsOwnTokens ==
  /\ \A code \in DOMAIN authorizationCodes :
        /\ MapHas(issued, code)
        /\ authorizationCodes[code].tokens.access_token = issued[code]
  /\ (/\ out.req.kind = "token"
      /\ out.req.grant_type = "authorization_code"
      /\ out.res.status = 200)
     => (/\ MapHas(issued, out.req.code)
         /\ out.res.access_token = issued[out.req.code]
         /\ \A other \in DOMAIN issued :
               (other # out.req.code /\ issued[other] # issued[out.req.code])
               => out.res.access_token # issued[other])

\* C32 witness: the callbacks of two flows have each minted a code, Google
\* issued different tokens to the two, and one of the codes has just been
\* exchanged for its own token while the other is still in the store.
C32_Witness ==
  /\ out.req.kind = "token"
  /\ out.res.status = 200
  /\ \A state \in DOMAIN flows : MapHas(produced, state) /\ produced[state] = 1
  /\ Cardinality(DOMAIN flows) = 2
  /\ \E other \in DOMAIN authorizationCodes :
        /\ other # out.req.code
        /\ issued[other] # issued[out.req.code]
        /\ out.res.access_token = issued[out.req.code]

\* the request the last step answered was handed to a transport, and the
\* transport has handled it
HandledByTransport(kind) ==
  /\ out.req.kind = kind
  /\ out.req.handedTo # undefined
  /\ out.res.status \in {200, 202}
  /\ out.res.format = ByTransport(out.res.status).format

\* C33: in the SSE server, the handlers a handled POST /message triggers
\* get from getAuth the client the validator attached to that POST, so a
\* message posted with user B's token is never served with the client of
\* the user A who opened the session.
C33_MessageServedWithItsOwnClient ==
  (HandledByTransport("message") /\ out.req.app = "sse")
  => (/\ out.req.authClient # ""
      /\ out.req.servedWith = out.req.authClient)

\* C34: while a request handed to a registered Streamable HTTP transport
\* awaits transport.handleRequest, the transport's _currentRequest is that
\* request.
C34_CurrentRequestHoldsInFlight ==
  \A r \in Reqs :
     (/\ reqs[r].kind = "mcp"
      /\ reqs[r].pc = "handleRequest"
      /\ reqs[r].handedTo.sessionId # "")
     => servers[reqs[r].handedTo.sessionId].currentRequest = r

\* C35: in the dual-transport server, the handlers triggered by a request
\* to the MCP endpoint that has passed the validator and that its transport
\* has handled get from getAuth the client attached to that request; getAuth
\* does not throw.
C35_HandlersGetRequestClient ==
  (HandledByTransport("mcp") /\ out.req.authClient # "")
  => (/\ out.req.servedWith # ""
      /\ out.req.servedWith = out.req.authClient)

\* C36: the SSE server needs no client to disconnect in order to exit: once
\* SIGTERM or SIGINT has arrived and no handler has a step left to take,
\* process.exit can run, also while event streams are open.
C36_ExitNeedsNoDisconnect ==
  (/\ phase["sse"] = "closing"
   /\ \A r \in Reqs : reqs[r].kind = "idle")
  => ENABLED SseExit

\* the handler that has answered in this step ("none": no request answered)
AnsweredBy == IF out' # NoResponse THEN out'.req.kind ELSE "none"

\* C37: the state store gains entries only in a step of /oauth/authorize and
\* loses them only in a step of /oauth/authorize or, for the state it
\* consumes, of /oauth/callback; the code store gains entries only in a step
\* of /oauth/callback and loses them only in a step of /oauth/callback or,
\* for the code it consumes, of /oauth/token; no step rewrites a stored
\* record; every other step (registration, the metadata endpoints, the
\* validator, the session endpoints, the clock) leaves both stores as they
\* are.
C37_StoresChangedByOwnOperations ==
  [][/\ (DOMAIN oauthStates') \ (DOMAIN oauthStates) # {}
        => AnsweredBy = "authorize"
     /\ (DOMAIN oauthStates) \ (DOMAIN oauthStates') # {}
        => \/ AnsweredBy = "authorize"
           \/ /\ AnsweredBy = "callback"
              /\ (DOMAIN oauthStates) \ (DOMAIN oauthStates') = {out'.req.state}
     /\ (DOMAIN authorizationCodes') \ (DOMAIN authorizationCodes) # {}
        => AnsweredBy = "callback"
     /\ (DOMAIN authorizationCodes) \ (DOMAIN authorizationCodes') # {}
        => \/ AnsweredBy = "callback"
           \/ /\ AnsweredBy = "token"
              /\ (DOMAIN authorizationCodes) \ (DOMAIN authorizationCodes')
                   = {out'.req.code}
     /\ \A state \in (DOMAIN oauthStates) \cap (DOMAIN oauthStates') :
           oauthStates'[state] = oauthStates[state]
     /\ \A code \in (DOMAIN authorizationCodes) \cap (DOMAIN authorizationCodes') :
           authorizationCodes'[code] = authorizationCodes[code]
     /\ AnsweredBy \notin {"authorize", "callback", "token"}
        => UNCHANGED <<oauthStates, authorizationCodes>>]_vars

\* C37 witness: a flow has gone through /oauth/authorize, /oauth/callback
\* and /oauth/token, which has just consumed the flow's code, and a client
\* has registered in between.
C37_Witness ==
  /\ out.req.kind = "token"
  /\ out.res.status = 200
  /\ out.req.code \in handed
  /\ ~MapHas(authorizationCodes, out.req.code)
  /\ registeredClients # EmptyMap

\* C38: every proxy code in the code store has been sent to a client in a
\* redirect.
C38_StoredCodesWereHanded ==
  \A code \in DOMAIN authorizationCodes : code \in handed

\* C39: a record younger than the TTL leaves its store only when it is
\* consumed (a state by the callback that presents it, a code by the token
\* request that presents it), whatever request is served; and the record a
\* call inserts is in the store when the call has answered.
C39_SweepSparesYoungRecords ==
  [][/\ \A state \in DOMAIN oauthStates :
          (/\ now - oauthStates[state].timestamp < TTL
           /\ ~MapHas(oauthStates', state))
          => (AnsweredBy = "callback" /\ out'.req.state = state)
     /\ \A code \in DOMAIN authorizationCodes :
          (/\ now - authorizationCodes[code].timestamp < TTL
           /\ ~MapHas(authorizationCodes', code))
          => (AnsweredBy = "token" /\ out'.req.code = code)
     /\ (AnsweredBy = "authorize" /\ out'.res.status = 302)
        => (/\ MapHas(oauthStates', out'.res.state)
            /\ oauthStates'[out'.res.state].timestamp = now)
     /\ (AnsweredBy = "callback" /\ out'.req.authCode # "")
        => (/\ MapHas(authorizationCodes', out'.req.authCode)
            /\ authorizationCodes'[out'.req.authCode].timestamp = now)]_vars

\* C39 witness: an /oauth/authorize call has just stored its state and swept
\* the store: the first state, older than the TTL and never consumed, is
\* gone, and a state stored earlier that is not older than the TTL is still
\* there.
C39_Witness ==
  /\ out.req.kind = "authorize"
  /\ out.res.status = 302
  /\ finished = {}
  /\ produced = EmptyMap
  /\ drawn = 3
  /\ ~MapHas(oauthStates, RandomHexValues[1])
  /\ \E state \in DOMAIN oauthStates :
        /\ state # out.res.state
        /\ oauthStates[state].timestamp < now

====
